---- MODULE Spec2Model ----
(***************************************************************************)
(* PMBus numeric codecs of pmbus-adapter (src/src/formats.rs): LINEAR11,   *)
(* ULINEAR16 and DIRECT, modelled as the Rust code computes them, over a   *)
(* bit-exact model of IEEE-754 binary32 (f32) arithmetic; the VOUT_MODE    *)
(* register (src/src/vout_mode.rs), the status registers                  *)
(* (src/src/status.rs), and the command methods of PmbusAdaptor            *)
(* (src/src/lib.rs) with the bus transactions they make.                   *)
(*                                                                         *)
(* An f32 is the record [cls, m, e]:                                       *)
(*   cls = "fin": the value m * 2^e, m odd (or m = 0, e = 0 for zero),     *)
(*                |m| < 2^24, -149 <= e;                                   *)
(*   cls = "inf": +infinity (m = 1) or -infinity (m = -1);                 *)
(*   cls = "nan": a NaN.                                                   *)
(* The sign of zero is not kept: no code path of formats.rs reads it.      *)
(***************************************************************************)
EXTENDS Integers, Sequences, FiniteSets, TLC

VARIABLES call, ret, bus

vars == <<call, ret, bus>>

---------------------------------------------------------------------------
(* Machine integers *)

I8Min == -128
I8Max == 127
I16Min == -32768
I16Max == 32767
U8Max == 255
U16Max == 65535
I32Max == 2147483647
I32Min == -I32Max - 1

Abs(x) == IF x < 0 THEN -x ELSE x
Sgn(x) == IF x < 0 THEN -1 ELSE 1
Max(a, b) == IF a >= b THEN a ELSE b
Min(a, b) == IF a <= b THEN a ELSE b

\* Number of significant bits of x, 0 <= x < 2^31.
RECURSIVE BitLen(_)
BitLen(x) == IF x = 0 THEN 0
             ELSE IF x >= 65536 THEN 16 + BitLen(x \div 65536)
             ELSE IF x >= 256 THEN 8 + BitLen(x \div 256)
             ELSE IF x >= 16 THEN 4 + BitLen(x \div 16)
             ELSE 1 + BitLen(x \div 2)

---------------------------------------------------------------------------
(* f32 values and rounding *)

Fin(m, e) == [cls |-> "fin", m |-> m, e |-> e]
NaN == [cls |-> "nan", m |-> 0, e |-> 0]
PosInf == [cls |-> "inf", m |-> 1, e |-> 0]
NegInf == [cls |-> "inf", m |-> -1, e |-> 0]
Inf(s) == IF s < 0 THEN NegInf ELSE PosInf
Zero == Fin(0, 0)
One == Fin(1, 0)
Half == Fin(1, -1)

\* f32 parameters: 24 significant bits, least subnormal 2^-149, overflow at 2^128.
MantBits == 24
EMin == -149
EOver == 128
\* f32::MAX = (2^24 - 1) * 2^104, f32::MIN_POSITIVE = 2^-126.
F32Max == Fin(16777215, 104)
F32MinPositive == Fin(1, -126)

IsFinite(x) == x.cls = "fin"
IsNaN(x) == x.cls = "nan"
IsZero(x) == x.cls = "fin" /\ x.m = 0

\* The finite value m * 2^e, |m| < 2^24, in canonical form (m odd).
RECURSIVE Canon(_, _)
Canon(m, e) == IF m = 0 THEN Zero
               ELSE IF m % 256 = 0 THEN Canon(m \div 256, e + 8)
               ELSE IF m % 2 = 0 THEN Canon(m \div 2, e + 1)
               ELSE Fin(m, e)

\* Round to nearest, ties to even: RoundF32(s, M, E, sticky) is the f32
\* nearest to s * (M + t) * 2^E, where 0 <= M < 2^31, s is 1 or -1 and
\* 0 < t < 1 when sticky (then M has at least 26 bits), t = 0 otherwise.

\* The significand q at exponent E: infinity from 2^128 on.
RoundPack(s, q, E) ==
  IF BitLen(q) + E > EOver THEN Inf(s) ELSE Canon(s * q, E)

\* q, or q + 1 when the dropped bits r are above half a unit, or are half a
\* unit and q is odd (with sticky, a half counts as above half).
RoundUp(q, r, half, sticky) ==
  IF r > half \/ (r = half /\ (sticky \/ q % 2 = 1)) THEN q + 1 ELSE q

\* M of L bits with its low shift bits dropped.
RoundShift(s, M, E, sticky, L, shift) ==
  IF M = 0 \/ shift > L THEN Zero
  ELSE RoundPack(s,
         IF shift <= 0 THEN M
         ELSE RoundUp(M \div (2 ^ shift), M % (2 ^ shift), 2 ^ (shift - 1),
                      sticky),
         IF shift <= 0 THEN E ELSE E + shift)

\* The bits to drop: those beyond 24, and those below 2^-149.
RoundAt(s, M, E, sticky, L) ==
  RoundShift(s, M, E, sticky, L, Max(L - MantBits, EMin - E))

RoundNormal(s, M, E, sticky) == RoundAt(s, M, E, sticky, BitLen(M))

RoundF32(s, M, E, sticky) ==
  RoundNormal(s,
              IF M >= 1073741824 THEN M \div 2 ELSE M,
              IF M >= 1073741824 THEN E + 1 ELSE E,
              sticky \/ (M >= 1073741824 /\ M % 2 = 1))

---------------------------------------------------------------------------
(* f32 arithmetic: each operation returns the correctly rounded result *)

FNeg(x) == [x EXCEPT !.m = -x.m]
FAbs(x) == [x EXCEPT !.m = Abs(x.m)]

\* The sum is the integer S at exponent e.
AddExact(S, e) == RoundF32(Sgn(S), Abs(S), e, FALSE)

\* x dominates: X holds 30 bits of |x| at exponent EX, Y is |y| shifted
\* under it and st tells whether bits of y were shifted out.
AddSigned(s, same, X, EX, Y, st) ==
  RoundF32(s, IF same THEN X + Y ELSE X - Y - (IF st THEN 1 ELSE 0), EX, st)

AddSticky(x, y, X, EX, sy) ==
  AddSigned(Sgn(x.m), Sgn(x.m) = Sgn(y.m), X, EX,
            IF sy > 30 THEN 0 ELSE Abs(y.m) \div (2 ^ sy),
            IF sy > 30 THEN TRUE ELSE Abs(y.m) % (2 ^ sy) # 0)

\* d is x.e - y.e >= 0 and Lx the number of bits of |x.m|.
AddShifted(x, y, d, Lx) ==
  IF Lx + d <= 30 THEN AddExact(x.m * (2 ^ d) + y.m, y.e)
  ELSE AddSticky(x, y, Abs(x.m) * (2 ^ (30 - Lx)), x.e - (30 - Lx),
                 Lx + d - 30)

\* x + y for finite nonzero x, y with x.e >= y.e.
AddAligned(x, y) == AddShifted(x, y, x.e - y.e, BitLen(Abs(x.m)))

FAdd(x, y) ==
  IF IsNaN(x) \/ IsNaN(y) THEN NaN
  ELSE IF x.cls = "inf" THEN (IF y.cls = "inf" /\ y.m # x.m THEN NaN ELSE x)
  ELSE IF y.cls = "inf" THEN y
  ELSE IF x.m = 0 THEN y
  ELSE IF y.m = 0 THEN x
  ELSE AddAligned(IF x.e >= y.e THEN x ELSE y, IF x.e >= y.e THEN y ELSE x)

FSub(x, y) == FAdd(x, FNeg(y))

\* a * b for 0 < a, b < 2^24 whose product needs more than 31 bits, from
\* the 12-bit halves of a and b: the top 30 bits of the 48-bit product
\* hi * 2^24 + lo, with a sticky bit for the rest.
MulShift(s, E, hi, lo, k) ==
  RoundF32(s, hi * (2 ^ k) + lo \div (2 ^ (24 - k)), E + 24 - k,
           lo % (2 ^ (24 - k)) # 0)

MulTop(s, E, hi, lo) == MulShift(s, E, hi, lo, Min(24, 30 - BitLen(hi)))

MulHiLo(s, E, h, losum) ==
  MulTop(s, E, h + losum \div 16777216, losum % 16777216)

MulSum(s, E, hh, mid, ll) ==
  MulHiLo(s, E, hh + mid \div 4096, ll + (mid % 4096) * 4096)

MulParts(s, E, a1, a0, b1, b0) ==
  MulSum(s, E, a1 * b1, a1 * b0 + a0 * b1, a0 * b0)

MulWide(s, a, b, E) ==
  MulParts(s, E, a \div 4096, a % 4096, b \div 4096, b % 4096)

\* |x| * |y| with the sign s, for finite nonzero x and y.
MulMag(s, a, b, E) ==
  IF BitLen(a) + BitLen(b) <= 31 THEN RoundF32(s, a * b, E, FALSE)
  ELSE MulWide(s, a, b, E)

FMul(x, y) ==
  IF IsNaN(x) \/ IsNaN(y) THEN NaN
  ELSE IF x.cls = "inf" \/ y.cls = "inf"
    THEN (IF IsZero(x) \/ IsZero(y) THEN NaN ELSE Inf(Sgn(x.m) * Sgn(y.m)))
  ELSE IF x.m = 0 \/ y.m = 0 THEN Zero
  ELSE MulMag(Sgn(x.m) * Sgn(y.m), Abs(x.m), Abs(y.m), x.e + y.e)

\* Long division: quotient bits of r / d, 0 <= r < d, appended to q until q
\* has QuotBits bits; k counts the bits appended.
QuotBits == MantBits + 3
RECURSIVE DivBits(_, _, _, _)
DivBits(q, r, d, k) ==
  IF q >= 2 ^ (QuotBits - 1) THEN [q |-> q, r |-> r, k |-> k]
  ELSE IF 2 * r >= d THEN DivBits(2 * q + 1, 2 * r - d, d, k + 1)
  ELSE DivBits(2 * q, 2 * r, d, k + 1)

\* The quotient D.q * 2^(E - D.k), inexact when the remainder D.r is not 0.
DivRound(s, E, D) == RoundF32(s, D.q, E - D.k, D.r # 0)

\* |x| / |y| with the sign s, for finite nonzero x and y.
DivMag(s, a, b, E) ==
  DivRound(s, E, IF b = 1 THEN [q |-> a, r |-> 0, k |-> 0]
                 ELSE DivBits(a \div b, a % b, b, 0))

FDiv(x, y) ==
  IF IsNaN(x) \/ IsNaN(y) THEN NaN
  ELSE IF x.cls = "inf"
    THEN (IF y.cls = "inf" THEN NaN ELSE Inf(Sgn(x.m) * Sgn(y.m)))
  ELSE IF y.cls = "inf" THEN Zero
  ELSE IF y.m = 0 THEN (IF x.m = 0 THEN NaN ELSE Inf(Sgn(x.m)))
  ELSE IF x.m = 0 THEN Zero
  ELSE DivMag(Sgn(x.m) * Sgn(y.m), Abs(x.m), Abs(y.m), x.e - y.e)

\* -1, 0 or 1 as A is below, equal to or above B.
MagOrder(A, B) == IF A < B THEN -1 ELSE IF A > B THEN 1 ELSE 0

\* a * 2^p against b * 2^q for a, b > 0 with leading bits at ha and hb.
MagAt(a, p, b, q, ha, hb) ==
  IF ha # hb THEN MagOrder(ha, hb)
  ELSE MagOrder(a * (2 ^ (p - Min(p, q))), b * (2 ^ (q - Min(p, q))))

MagCmp(a, p, b, q) == MagAt(a, p, b, q, BitLen(a) + p, BitLen(b) + q)

\* -1, 0 or 1 as finite x is below, equal to or above finite y.
FinCmp(x, y) ==
  IF x.m = 0 THEN (IF y.m = 0 THEN 0 ELSE -Sgn(y.m))
  ELSE IF y.m = 0 THEN Sgn(x.m)
  ELSE IF Sgn(x.m) # Sgn(y.m) THEN Sgn(x.m)
  ELSE Sgn(x.m) * MagCmp(Abs(x.m), x.e, Abs(y.m), y.e)

\* The comparison of two non-NaN values: infinities order as +-2^200.
Cmp(x, y) ==
  IF x.cls = "inf" THEN (IF y.cls = "inf" /\ y.m = x.m THEN 0 ELSE x.m)
  ELSE IF y.cls = "inf" THEN -y.m
  ELSE FinCmp(x, y)

FLt(x, y) == ~IsNaN(x) /\ ~IsNaN(y) /\ Cmp(x, y) < 0
FGt(x, y) == FLt(y, x)
FGe(x, y) == ~IsNaN(x) /\ ~IsNaN(y) /\ Cmp(x, y) >= 0
FEq(x, y) == ~IsNaN(x) /\ ~IsNaN(y) /\ Cmp(x, y) = 0

---------------------------------------------------------------------------
(* Casts ("as") between integers and f32 *)

\* i as f32 for an integer i of i8, i16, u16 or i32 range.
IntToF32(i) ==
  IF i = I32Min THEN Fin(-1, 31) ELSE RoundF32(Sgn(i), Abs(i), 0, FALSE)

\* x as i32: truncates toward zero, saturates, NaN gives 0.
F32ToI32(x) ==
  IF IsNaN(x) THEN 0
  ELSE IF x.cls = "inf" THEN (IF x.m > 0 THEN I32Max ELSE I32Min)
  ELSE IF x.m = 0 THEN 0
  ELSE IF x.e >= 0
    THEN IF BitLen(Abs(x.m)) + x.e > 31
           THEN (IF x.m > 0 THEN I32Max ELSE I32Min)
           ELSE x.m * (2 ^ x.e)
    ELSE IF -x.e > 30 THEN 0
    ELSE Sgn(x.m) * (Abs(x.m) \div (2 ^ (-x.e)))

\* x as u32, as the two 16-bit halves [hi, lo] of the result: truncates
\* toward zero, saturates at 0 and 2^32 - 1, NaN gives 0.
U32(hi, lo) == [hi |-> hi, lo |-> lo]
F32ToU32(x) ==
  IF IsNaN(x) THEN U32(0, 0)
  ELSE IF x.cls = "inf" THEN (IF x.m > 0 THEN U32(U16Max, U16Max) ELSE U32(0, 0))
  ELSE IF x.m <= 0 THEN U32(0, 0)
  ELSE IF BitLen(x.m) + x.e > 32 THEN U32(U16Max, U16Max)
  ELSE IF x.e >= 16 THEN U32(x.m * (2 ^ (x.e - 16)), 0)
  ELSE IF x.e >= 0
    THEN U32(x.m \div (2 ^ (16 - x.e)), (x.m % (2 ^ (16 - x.e))) * (2 ^ x.e))
  ELSE IF -x.e > 30 THEN U32(0, 0)
  ELSE LET t == x.m \div (2 ^ (-x.e))
       IN  U32(t \div 65536, t % 65536)

\* Two's-complement reinterpretation of the low 8 / 16 bits.
AsI8(u) == LET b == u % 256 IN IF b >= 128 THEN b - 256 ELSE b
AsI16(u) == LET b == u % 65536 IN IF b >= 32768 THEN b - 65536 ELSE b
\* A signed integer as u16 / u8 (sign-extended, then truncated).
AsU16(i) == i % 65536
AsU8(i) == i % 256

\* Bitwise and / or of two non-negative integers.
RECURSIVE BitAnd(_, _)
BitAnd(a, b) == IF a = 0 \/ b = 0 THEN 0
                ELSE 2 * BitAnd(a \div 2, b \div 2) + (a % 2) * (b % 2)
RECURSIVE BitOr(_, _)
BitOr(a, b) == IF a = 0 THEN b
               ELSE IF b = 0 THEN a
               ELSE 2 * BitOr(a \div 2, b \div 2) + Max(a % 2, b % 2)

---------------------------------------------------------------------------
(* Results of calls *)

Some(v) == [kind |-> "Some", val |-> v]
None == [kind |-> "None", val |-> 0]
RetF32(x) == [kind |-> "f32", val |-> x]
\* A panic: the call does not return.
Panic == [kind |-> "panic", val |-> 0]
RetVoutMode(vm) == [kind |-> "VoutMode", val |-> vm]
RetU8(b) == [kind |-> "u8", val |-> b]
UnwrapOr(o, d) == IF o.kind = "Some" THEN o.val ELSE d

---------------------------------------------------------------------------
(* formats.rs: helpers *)

\* const POW10: [f32; 17], the f32 nearest to 1e-8 .. 1e8.
POW10 == << Fin(11258999, -50), Fin(14073749, -47), Fin(8796093, -43),
            Fin(2748779, -38), Fin(13743895, -37), Fin(8589935, -33),
            Fin(5368709, -29), Fin(13421773, -27), Fin(1, 0), Fin(5, 1),
            Fin(25, 2), Fin(125, 3), Fin(625, 4), Fin(3125, 5),
            Fin(15625, 6), Fin(78125, 7), Fin(390625, 8) >>

\* fn pow10(r: i8) -> Option<f32>.  A negative r + 8 cast to usize is above
\* 2^63, beyond the table, so POW10.get gives None.
pow10(r) ==
  LET idx == r + 8
  IN  IF idx >= 0 /\ idx < Len(POW10) THEN Some(POW10[idx + 1]) ELSE None

\* Truncation toward zero in place of rounding: (x as i32) as f32
round_f32_Truncating(x) == IntToF32(F32ToI32(x))

\* fn round_f32(x: f32) -> f32
round_f32(x) ==
  IF FGe(x, Zero)
    THEN IntToF32(F32ToI32(FAdd(x, Half)))
    ELSE IntToF32(F32ToI32(FSub(x, Half)))

\* fn exp2f(n: i32) -> f32
exp2f(n) ==
  IF n >= 0 /\ n < 31 THEN IntToF32(2 ^ n)
  ELSE IF n < 0 /\ n > -31 THEN FDiv(One, IntToF32(2 ^ (-n)))
  ELSE IF n >= 31 THEN F32Max
  ELSE F32MinPositive

---------------------------------------------------------------------------
(* formats.rs: Linear11 *)

\* The exponent field read without sign extension: (raw >> 11) as i8
SignExtend5_Unsigned(raw) == raw \div 2048

\* The mantissa read without its sign: (self.0 & 0x07FF) as i16
SignExtend11_Unsigned(raw) == BitAnd(raw, 2047)

\* ((raw >> 11) as i8) << 3 >> 3
SignExtend5(raw) == AsI8((raw \div 2048) * 8) \div 8
\* ((raw & 0x07FF) as i16) << 5 >> 5
SignExtend11(raw) == AsI16(BitAnd(raw, 2047) * 32) \div 32

\* Linear11::to_f32
Linear11_to_f32(raw) ==
  LET n == SignExtend5(raw)
      y == SignExtend11(raw)
  IN  FMul(IntToF32(y), exp2f(n))

\* The mantissa range with its upper end off by one: (-1024..=1024)
MantissaFits_OffByOne(y) == y >= -1024 /\ y <= 1024

\* (-1024..=1023).contains(&y_rounded)
MantissaFits(y) == y >= -1024 /\ y <= 1023

\* The loop body of Linear11::from_f32 for exponent n, up to the comparison
\* with the best error: fits is FALSE where the body takes `continue`.
L11Candidate(value, n) ==
  LET y_f == FDiv(value, exp2f(n))
      y_rounded == F32ToI32(round_f32(y_f))
      y == AsI16(y_rounded)
      reconstructed == FMul(IntToF32(y), exp2f(n))
  IN  IF ~MantissaFits(y_rounded) THEN [fits |-> FALSE, y |-> 0, err |-> Zero]
      ELSE [fits |-> TRUE, y |-> y,
            err |-> FAbs(FSub(value, reconstructed))]

\* for n in -16i8..=15 { ... if err < best_err { best_* = ... } }
\* best is [n, y, err]: best_n, best_y and best_err.
RECURSIVE L11Loop(_, _, _)
L11Loop(value, n, best) ==
  IF n > 15 THEN best
  ELSE LET c == L11Candidate(value, n)
       IN  IF c.fits /\ FLt(c.err, best.err)
             THEN L11Loop(value, n + 1, [n |-> n, y |-> c.y, err |-> c.err])
             ELSE L11Loop(value, n + 1, best)

\* The exponent field shifted by 10 instead of 11: (n_bits << 10) | y_bits
L11Pack_ShortShift(best_n, best_y) ==
  LET n_bits == BitAnd(AsU16(best_n), 31)
      y_bits == BitAnd(AsU16(best_y), 2047)
  IN  BitOr((n_bits * 1024) % 65536, y_bits)

\* (n_bits << 11) | y_bits
L11Pack(best_n, best_y) ==
  LET n_bits == BitAnd(AsU16(best_n), 31)
      y_bits == BitAnd(AsU16(best_y), 2047)
  IN  BitOr((n_bits * 2048) % 65536, y_bits)

\* Linear11::from_f32 without `if value == 0.0 { return Some(Self(0)); }`
Linear11_from_f32_NoZeroCase(value) ==
  IF ~IsFinite(value) THEN None
  ELSE LET best == L11Loop(value, -16, [n |-> 0, y |-> 0, err |-> F32Max])
       IN  IF FEq(best.err, F32Max) THEN None
           ELSE Some(L11Pack(best.n, best.y))

\* Linear11::from_f32
Linear11_from_f32(value) ==
  IF ~IsFinite(value) THEN None
  ELSE IF FEq(value, Zero) THEN Some(0)
  ELSE LET best == L11Loop(value, -16, [n |-> 0, y |-> 0, err |-> F32Max])
       IN  IF FEq(best.err, F32Max) THEN None
           ELSE Some(L11Pack(best.n, best.y))

---------------------------------------------------------------------------
(* formats.rs: ULinear16 *)

\* The raw word read as signed: (self.0 as i16) as f32 * exp2f(exponent)
ULinear16_to_f32_Signed(raw, exponent) ==
  FMul(IntToF32(AsI16(raw)), exp2f(exponent))

\* ULinear16::to_f32
ULinear16_to_f32(raw, exponent) == FMul(IntToF32(raw), exp2f(exponent))

\* Some(Self(raw_rounded as u16)) unless raw_rounded > 0xFFFF
U16Checked(raw_rounded) ==
  IF raw_rounded.hi > 0 THEN None ELSE Some(raw_rounded.lo)

\* ULinear16::from_f32
ULinear16_from_f32(value, exponent) ==
  IF ~IsFinite(value) \/ FLt(value, Zero) THEN None
  ELSE LET raw_f == FDiv(value, exp2f(exponent))
           raw_rounded == F32ToU32(round_f32(raw_f))
       IN  U16Checked(raw_rounded)

---------------------------------------------------------------------------
(* formats.rs: DirectCoefficients *)

Coeffs(m, b, r) == [m |-> m, b |-> b, r |-> r]

\* -self.r on an i8: with overflow checks (the debug profile) the negation of
\* i8::MIN panics; without them (the release profile) it wraps to i8::MIN.
NegI8(r) == IF r = I8Min THEN {Panic, Some(I8Min)} ELSE {Some(-r)}

\* The decode scale with the sign of R lost: pow10(self.r).unwrap_or(1.0)
DecodeScale_NotNegated(negr) == UnwrapOr(pow10(-negr), One)
\* The encode scale with the sign of R flipped: pow10(-self.r).unwrap_or(1.0)
EncodeScale_Negated(r) == UnwrapOr(pow10(-r), One)

\* pow10(-self.r).unwrap_or(1.0), given the negated r
DecodeScale(negr) == UnwrapOr(pow10(negr), One)
\* pow10(self.r).unwrap_or(1.0)
EncodeScale(r) == UnwrapOr(pow10(r), One)

\* (1.0 / self.m as f32) * ((raw as f32) * scale - self.b as f32)
DirectDecode(c, raw, scale) ==
  FMul(FDiv(One, IntToF32(c.m)),
       FSub(FMul(IntToF32(raw), scale), IntToF32(c.b)))

\* DirectCoefficients::to_f32: the outcomes the builds can produce.
Direct_to_f32(c, raw) ==
  { IF n.kind = "panic" THEN Panic
    ELSE RetF32(DirectDecode(c, raw, DecodeScale(n.val)))
    : n \in NegI8(c.r) }

\* if y < i16::MIN as i32 || y > i16::MAX as i32 { None } else { Some(y as i16) }
I16Checked(y) == IF y < I16Min \/ y > I16Max THEN None ELSE Some(AsI16(y))

\* DirectCoefficients::from_f32
Direct_from_f32(c, value) ==
  LET scale == EncodeScale(c.r)
      y_f == FMul(FAdd(FMul(IntToF32(c.m), value), IntToF32(c.b)), scale)
      y == F32ToI32(round_f32(y_f))
  IN  I16Checked(y)

\* The two bytes read in the other order: i16::from_be_bytes([lo, hi])
i16_from_be_bytes(lo, hi) == AsI16(256 * lo + hi)
\* i16::from_le_bytes([lo, hi])
i16_from_le_bytes(lo, hi) == AsI16(lo + 256 * hi)

\* DirectCoefficients::from_coefficients_response; data is the byte slice,
\* as a sequence (data[0] of the code is data[1] here).
from_coefficients_response(data) ==
  IF Len(data) < 5 THEN None
  ELSE Some(Coeffs(i16_from_le_bytes(data[1], data[2]),
                   i16_from_le_bytes(data[3], data[4]),
                   AsI8(data[5])))

---------------------------------------------------------------------------
(* vout_mode.rs: VoutMode *)

\* enum VoutModeType
ULinear16Mode(exponent) == [type |-> "ULinear16", exponent |-> exponent]
VidMode(code) == [type |-> "Vid", code |-> code]
DirectMode == [type |-> "Direct"]
IeeeHalfMode == [type |-> "IeeeHalf"]

\* struct VoutMode
VoutMode(relative, mode) == [relative |-> relative, mode |-> mode]

\* The exponent read without its sign: param as i8
VoutExponent_Unsigned(param) == param
\* ((param as i8) << 3) >> 3: the five bits, sign-extended
VoutExponent(param) == AsI8((param * 8) % 256) \div 8

\* match mode_bits { 0b00 => .., 0b01 => .., 0b10 => .., _ => .. }
VoutModeOf(mode_bits, param) ==
  CASE mode_bits = 0 -> ULinear16Mode(VoutExponent(param))
    [] mode_bits = 1 -> VidMode(param)
    [] mode_bits = 2 -> DirectMode
    [] OTHER -> IeeeHalfMode

\* VoutMode::from_raw
VoutMode_from_raw(raw) ==
  VoutMode(BitAnd(raw, 128) # 0,
           VoutModeOf(BitAnd(raw \div 32, 3), BitAnd(raw, 31)))

\* The VID code written without its mask: rel_bit | (0b01 << 5) | code
VidRaw_Unmasked(rel_bit, code) == BitOr(BitOr(rel_bit, 32), code)
\* The exponent written without its mask: rel_bit | (exponent as u8)
ULinear16Raw_Unmasked(rel_bit, exponent) == BitOr(rel_bit, AsU8(exponent))
\* The selector of Direct shifted one bit short: rel_bit | (0b10 << 4)
DirectRaw_ShiftedShort(rel_bit) == BitOr(rel_bit, 32)

\* rel_bit | ((exponent as u8) & 0x1F)
ULinear16Raw(rel_bit, exponent) == BitOr(rel_bit, BitAnd(AsU8(exponent), 31))
\* rel_bit | (0b01 << 5) | (code & 0x1F)
VidRaw(rel_bit, code) == BitOr(BitOr(rel_bit, 32), BitAnd(code, 31))
\* rel_bit | (0b10 << 5)
DirectRaw(rel_bit) == BitOr(rel_bit, 64)
\* rel_bit | (0b11 << 5)
IeeeHalfRaw(rel_bit) == BitOr(rel_bit, 96)

\* match self.mode { .. }, given rel_bit
VoutModeRaw(rel_bit, mode) ==
  CASE mode.type = "ULinear16" -> ULinear16Raw(rel_bit, mode.exponent)
    [] mode.type = "Vid" -> VidRaw(rel_bit, mode.code)
    [] mode.type = "Direct" -> DirectRaw(rel_bit)
    [] mode.type = "IeeeHalf" -> IeeeHalfRaw(rel_bit)

\* VoutMode::to_raw
VoutMode_to_raw(vm) ==
  VoutModeRaw(IF vm.relative THEN 128 ELSE 0, vm.mode)

---------------------------------------------------------------------------
(* status.rs: the status registers *)

StatusTypes ==
  { "StatusByte", "StatusWord", "StatusVout", "StatusIout", "StatusInput",
    "StatusTemperature", "StatusCml", "StatusOther", "StatusFans12",
    "StatusFans34" }

\* bitflags! { .. }: the flags each type declares, in the order of the source.
StatusFlags(T) ==
  CASE T = "StatusWord" ->
         <<128, 64, 32, 16, 8, 4, 2, 1,
           32768, 16384, 8192, 4096, 2048, 1024, 512, 256>>
    [] T = "StatusTemperature" -> <<128, 64, 32, 16>>
    [] T = "StatusCml" -> <<128, 64, 32, 16, 8, 2, 1>>
    [] T \in {"StatusFans12", "StatusFans34"} -> <<128, 64, 32, 16, 8, 4>>
    [] OTHER -> <<128, 64, 32, 16, 8, 4, 2, 1>>

\* The low-byte flags of StatusWord declared in the high byte instead.
StatusWordFlag_HighByte ==
  "BUSY" :> 32768 @@ "OFF" :> 16384 @@ "VOUT_OV_FAULT" :> 8192 @@
  "IOUT_OC_FAULT" :> 4096 @@ "VIN_UV_FAULT" :> 2048 @@
  "TEMPERATURE" :> 1024 @@ "CML" :> 512 @@ "NONE_OF_THE_ABOVE" :> 256 @@
  "VOUT" :> 128 @@ "IOUT_POUT" :> 64 @@ "INPUT" :> 32 @@
  "MFR_SPECIFIC" :> 16 @@ "POWER_GOOD_NEG" :> 8 @@ "FANS" :> 4 @@
  "OTHER" :> 2 @@ "UNKNOWN" :> 1

\* The named constants of StatusByte and of StatusWord.
StatusByteFlag ==
  "BUSY" :> 128 @@ "OFF" :> 64 @@ "VOUT_OV_FAULT" :> 32 @@
  "IOUT_OC_FAULT" :> 16 @@ "VIN_UV_FAULT" :> 8 @@ "TEMPERATURE" :> 4 @@
  "CML" :> 2 @@ "NONE_OF_THE_ABOVE" :> 1
StatusWordFlag ==
  "BUSY" :> 128 @@ "OFF" :> 64 @@ "VOUT_OV_FAULT" :> 32 @@
  "IOUT_OC_FAULT" :> 16 @@ "VIN_UV_FAULT" :> 8 @@ "TEMPERATURE" :> 4 @@
  "CML" :> 2 @@ "NONE_OF_THE_ABOVE" :> 1 @@ "VOUT" :> 32768 @@
  "IOUT_POUT" :> 16384 @@ "INPUT" :> 8192 @@ "MFR_SPECIFIC" :> 4096 @@
  "POWER_GOOD_NEG" :> 2048 @@ "FANS" :> 1024 @@ "OTHER" :> 512 @@
  "UNKNOWN" :> 256

\* s.contains(flag), s given by its bits (bitflags: bits & flag == flag)
contains(bits, flag) == BitAnd(bits, flag) = flag

\* Flags::all().bits(): the union of the first n declared flags.
RECURSIVE FlagsAll(_, _)
FlagsAll(flags, n) ==
  IF n = 0 THEN 0 ELSE BitOr(FlagsAll(flags, n - 1), flags[n])

\* The bits kept as they are: Self::from_bits_retain(raw)
from_bits_retain(flags, raw) == raw
\* Self::from_bits_truncate(raw): the bits of raw that are declared flags
from_bits_truncate(flags, raw) == BitAnd(raw, FlagsAll(flags, Len(flags)))

\* T::from_raw(raw); the value is its bits()
Status_from_raw(T, raw) ==
  [kind |-> T, val |-> from_bits_truncate(StatusFlags(T), raw)]

---------------------------------------------------------------------------
(* commands.rs, error.rs, lib.rs: PmbusAdaptor *)

\* Result<T, E>, and () as the empty tuple
Ok(v) == [kind |-> "Ok", val |-> v]
Err(e) == [kind |-> "Err", val |-> e]
Unit == <<>>

\* enum PmbusError<E>; From<E> for PmbusError<E> gives Bus(e)
PmbusErrorBus(e) == [error |-> "Bus", e |-> e]
InvalidResponseLength == [error |-> "InvalidResponseLength"]

\* enum CommandCode, #[repr(u8)]: the variants the modelled methods name
CommandCode ==
  "Page" :> 0 @@ "ClearFaults" :> 3 @@ "PagePlusRead" :> 6 @@
  "Query" :> 26 @@ "VoutCommand" :> 33 @@ "Coefficients" :> 48 @@
  "StatusByte" :> 120 @@ "StatusWord" :> 121 @@ "StatusVout" :> 122 @@
  "StatusIout" :> 123 @@ "StatusInput" :> 124 @@
  "StatusTemperature" :> 125 @@ "StatusCml" :> 126 @@
  "StatusOther" :> 127 @@ "StatusFans12" :> 129 @@ "StatusFans34" :> 130 @@
  "ReadKwhIn" :> 131 @@ "MfrId" :> 153 @@
  "UserData00" :> 176 @@ "UserData01" :> 177 @@ "UserData02" :> 178 @@
  "UserData03" :> 179 @@ "UserData04" :> 180 @@ "UserData05" :> 181 @@
  "UserData06" :> 182 @@ "UserData07" :> 183 @@ "UserData08" :> 184 @@
  "UserData09" :> 185 @@ "UserData10" :> 186 @@ "UserData11" :> 187 @@
  "UserData12" :> 188 @@ "UserData13" :> 189 @@ "UserData14" :> 190 @@
  "UserData15" :> 191

\* CommandCode::code
code(cmd) == CommandCode[cmd]

\* One call of a method of SmbusAdaptor (smbus-adapter crate): the method,
\* its arguments, and the Result it gave back.
Transaction(op, addr, c, data, resp) ==
  [op |-> op, addr |-> addr, code |-> c, data |-> data, resp |-> resp]

\* The coefficients parsed from the start of the response, count byte
\* included.
get_coefficients_CountByteParsed(resp) ==
  IF resp.kind = "Err" THEN Err(PmbusErrorBus(resp.val))
  ELSE IF Len(resp.val) < 6 THEN Err(InvalidResponseLength)
  ELSE LET parsed == from_coefficients_response(SubSeq(resp.val, 1, 5))
       IN  IF parsed.kind = "Some" THEN Ok(parsed.val)
           ELSE Err(InvalidResponseLength)

\* PmbusAdaptor::get_coefficients after the bus call: resp is what
\* block_process_call_cmd(addr, CommandCode::Coefficients, &[query]) gave.
get_coefficients(resp) ==
  IF resp.kind = "Err" THEN Err(PmbusErrorBus(resp.val))
  ELSE IF Len(resp.val) < 6 THEN Err(InvalidResponseLength)
  ELSE LET parsed == from_coefficients_response(SubSeq(resp.val, 2, 6))
       IN  IF parsed.kind = "Some" THEN Ok(parsed.val)
           ELSE Err(InvalidResponseLength)

\* get_status_X / set_status_X: STATUS_WORD is a word register, the other
\* nine are byte registers; the command is CommandCode::StatusX.
StatusRead(T) == IF T = "StatusWord" THEN "read_word" ELSE "read_byte"
StatusWrite(T) == IF T = "StatusWord" THEN "write_word" ELSE "write_byte"

\* The raw value kept whole: Ok(StatusX::from_bits_retain(raw))
get_status_Retaining(T, resp) ==
  IF resp.kind = "Err" THEN resp ELSE Ok([kind |-> T, val |-> resp.val])

\* get_status_X after the bus call: `?` hands the bus error on as it is,
\* a raw value goes through StatusX::from_raw.
get_status(T, resp) ==
  IF resp.kind = "Err" THEN resp ELSE Ok(Status_from_raw(T, resp.val))

\* Flags::bits: the payload set_status_X writes
bits(status) == status.val

\* set_user_data / get_user_data:
\* let code = CommandCode::UserData00.code() + (index & 0x0F)
UserDataCode_Unmasked(index) == code("UserData00") + index
UserDataCode(index) == code("UserData00") + BitAnd(index, 15)

\* Methods that hand their arguments to one SmbusAdaptor method and return
\* its result: one per private helper, and the ones that call the bus
\* adaptor themselves.
PassThrough ==
  { [name |-> "clear_faults", smbus |-> "send_byte", cmd |-> "ClearFaults"],
    [name |-> "set_page", smbus |-> "write_byte", cmd |-> "Page"],
    [name |-> "get_page", smbus |-> "read_byte", cmd |-> "Page"],
    [name |-> "set_vout_command", smbus |-> "write_word",
     cmd |-> "VoutCommand"],
    [name |-> "get_vout_command", smbus |-> "read_word",
     cmd |-> "VoutCommand"],
    [name |-> "set_mfr_id", smbus |-> "block_write", cmd |-> "MfrId"],
    [name |-> "get_mfr_id", smbus |-> "block_read", cmd |-> "MfrId"],
    [name |-> "page_plus_read", smbus |-> "block_read_process_call",
     cmd |-> "PagePlusRead"],
    [name |-> "query", smbus |-> "process_call", cmd |-> "Query"],
    [name |-> "read_kwh_in", smbus |-> "write_read", cmd |-> "ReadKwhIn"] }

\* u32::from_le_bytes of the first four bytes, as two 16-bit halves
u32_from_le_bytes(buf) ==
  [lo |-> buf[1] + 256 * buf[2], hi |-> buf[3] + 256 * buf[4]]

\* What the method returns for the bus adaptor's result: query keeps the
\* low byte of the word (`w as u8`), read_kwh_in assembles the counter,
\* the others return the result as it is. An error is never changed.
MethodResult(name, resp) ==
  IF resp.kind = "Err" THEN resp
  ELSE CASE name = "query" -> Ok(resp.val % 256)
         [] name = "read_kwh_in" -> Ok(u32_from_le_bytes(resp.val))
         [] OTHER -> resp

---------------------------------------------------------------------------
(* Inputs of the calls *)

\* Mantissas of the value grid run over -MaxMant..MaxMant; raw words and
\* coefficients near 0 and near the ends of their ranges run MaxRaw deep.
MaxMant == 8
MaxRaw == 3
\* A response to COEFFICIENTS carries up to MaxExtra bytes after the fifth.
MaxExtra == 2

\* Exponents VoutMode::from_raw can produce.
VoutExponents == -16 .. 15

GridValues(exps) == { Canon(k, e) : k \in -MaxMant .. MaxMant, e \in exps }

NonFinite == { NaN, PosInf, NegInf }

\* The f32 below 0.5 (0.5 - 2^-25), scaled by 2^j.
BelowHalf(j) == Fin(16777215, j - 25)

\* Values for Linear11::from_f32: the grid, the test vectors of formats.rs,
\* and the f32 at and next to the ends of the format's range
\* (1023.5 * 2^15, -1024.5 * 2^15), f32::MAX, subnormals.
L11Values ==
  GridValues(-20 .. 16) \cup NonFinite
  \cup { Fin(13, 2), Fin(5, 3), Fin(25, -1), Fin(-125, 2), Fin(1023, 0),
         Fin(5033165, -24), Fin(11258999, -50),
         Fin(2047, 14), Fin(16769023, 1), Fin(-2047, 14), Fin(-16769023, 1),
         Fin(-2049, 14), Fin(-8392703, 2), Fin(2049, 14), Fin(8392703, 2),
         Fin(1023, 15), Fin(-1, 25), Fin(1, 25),
         F32Max, FNeg(F32Max), F32MinPositive, Fin(1, -149), Fin(-1, -149),
         Fin(1, -17), Fin(-1, -17), Fin(1, -18), Fin(3, -18), Fin(-3, -18) }
  \cup { BelowHalf(j) : j \in {-16, -15, 0} }
  \cup { FNeg(BelowHalf(j)) : j \in {-16, -15, 0} }

\* Raw 16-bit words for ULinear16::to_f32: both ends, every power of two
\* and its predecessor, and the test vectors of formats.rs.
U16RawWords ==
  (0 .. MaxRaw) \cup ((U16Max - MaxRaw) .. U16Max)
  \cup { 2 ^ j : j \in 1 .. 15 } \cup { 2 ^ j - 1 : j \in 1 .. 15 }
  \cup { 32768 + k : k \in 1 .. MaxRaw }
  \cup { 1229, 819, 1204, 2867, 8192 }

\* Values for ULinear16::from_f32.
U16Values ==
  GridValues(-18 .. 18) \cup NonFinite
  \cup { Fin(5033165, -24), Fin(13421773, -26), Fin(9865003, -25),
         Fin(11744051, -24), Fin(5033165, -22), Fin(13841203, -22),
         F32Max, FNeg(F32Max), F32MinPositive, Fin(1, -149), Fin(-1, -149) }
  \cup { BelowHalf(j) : j \in {-16, -12, 0, 15} }
  \cup { Canon(131071, j - 1) : j \in {-16, -12, 0, 15} }
  \cup { Canon(16777087, j - 8) : j \in {-16, -12, 0, 15} }
  \cup { Canon(65535, j) : j \in {-16, -12, 0, 15} }
  \cup { Canon(1, j + 16) : j \in {-16, -12, 0, 15} }

\* Coefficients m, b (i16) and R (i8); raw register values (i16).
I16Samples ==
  (-MaxRaw .. MaxRaw) \cup { I16Min, I16Max, 5, 10, 35, 100, -1000, 9999 }
MSamples == (-MaxRaw .. MaxRaw) \cup { I16Min, I16Max, 10, 1000 }
BSamples == (-1 .. 1) \cup { I16Min, I16Max, 5, -1000 }
RInRange == -8 .. 8
RSamples == RInRange \cup { I8Min, -127, -9, 9, I8Max }
CoeffSamples ==
  { Coeffs(m, b, r) : m \in MSamples, b \in BSamples, r \in RSamples }

\* Values for DirectCoefficients::from_f32.
DirectValues ==
  GridValues({-2, 0, 3}) \cup NonFinite
  \cup { BelowHalf(0), FNeg(BelowHalf(0)), Fin(32767, 0), Fin(65535, -1),
         Fin(-65537, -1), Fin(-32769, 0), Fin(1, 15), Fin(3, -1),
         Fin(13421773, -27), F32Max, FNeg(F32Max), Fin(1, -149) }

---------------------------------------------------------------------------
(* The caller.  Every operation is a function of its arguments alone        *)
(* (none of the three files keeps state), so a behaviour is one call: the   *)
(* initial state holds the call about to be made, the action of the called  *)
(* function makes it and stores what it returns.                            *)

Pending == [kind |-> "pending", val |-> 0]

\* A sample of the raw words: every exponent with the mantissas at both
\* ends of the field and around zero.
L11RawWords ==
  { L11Pack(n, y) : n \in VoutExponents,
      y \in (-MaxRaw .. MaxRaw) \cup { -1024, -1023, 1022, 1023, 832, 208, 64 } }

L11DecodeCalls(raws) ==
  { [op |-> "Linear11::to_f32", raw |-> raw] : raw \in raws }
L11EncodeCalls ==
  { [op |-> "Linear11::from_f32", value |-> value] : value \in L11Values }
U16DecodeCalls ==
  { [op |-> "ULinear16::to_f32", raw |-> raw, exponent |-> exponent] :
      raw \in U16RawWords, exponent \in VoutExponents }
U16EncodeCalls ==
  { [op |-> "ULinear16::from_f32", value |-> value, exponent |-> exponent] :
      value \in U16Values, exponent \in VoutExponents }
\* ULinear16 with every exponent an i8 can hold.
U16WideCalls ==
  { [op |-> "ULinear16::to_f32", raw |-> raw, exponent |-> exponent] :
      raw \in {0, 1, 3, U16Max}, exponent \in I8Min .. I8Max }
  \cup { [op |-> "ULinear16::from_f32", value |-> value,
          exponent |-> exponent] :
          value \in { Zero, One, Fin(3, 0), Fin(5, -1), Fin(1, 31),
                      Fin(3, -31), Fin(1, 40), Fin(5, -40) },
          exponent \in I8Min .. I8Max }
DirectDecodeCalls ==
  { [op |-> "DirectCoefficients::to_f32", c |-> c, raw |-> raw] :
      c \in CoeffSamples, raw \in I16Samples }
DirectEncodeCalls ==
  { [op |-> "DirectCoefficients::from_f32", c |-> c, value |-> value] :
      c \in CoeffSamples, value \in DirectValues }

\* Responses to COEFFICIENTS: every slice shorter than five bytes over the
\* bytes 0x00 and 0xFF, and five bytes from a sample of a byte's values
\* followed by up to MaxExtra further bytes.
ByteSamples == { 0, 5, 10, 127, 128, U8Max }
RECURSIVE ByteSeqs(_, _)
ByteSeqs(bytes, len) ==
  IF len = 0 THEN { <<>> }
  ELSE { Append(d, x) : d \in ByteSeqs(bytes, len - 1), x \in bytes }
CoefficientsResponses ==
  UNION { ByteSeqs({0, U8Max}, len) : len \in 0 .. 4 }
  \cup { d \o extra : d \in ByteSeqs(ByteSamples, 5),
           extra \in UNION { ByteSeqs({0, U8Max}, len) : len \in 0 .. MaxExtra } }
CoefficientsCalls ==
  { [op |-> "DirectCoefficients::from_coefficients_response", data |-> data] :
      data \in CoefficientsResponses }

\* Values for round_f32: the grid, the halves of the documentation, 0.49,
\* the f32 next below 0.5, odd integers above 2^23, the largest f32 below
\* 2^31, and values past the i32 range.
RoundValues ==
  GridValues(-6 .. 6) \cup NonFinite
  \cup { Canon(16441672, -25), BelowHalf(0), FNeg(BelowHalf(0)),
         Fin(8388609, 0), Fin(-8388609, 0), Fin(16777215, 0),
         Fin(16777215, 7), Fin(-16777215, 7), Fin(1, 31), Fin(1, 40),
         Fin(8388607, -1), Fin(-8388607, -1), Fin(1, -149) }
RoundCalls == { [op |-> "round_f32", x |-> x] : x \in RoundValues }

\* Every raw value of every status register (16 bits for StatusWord).
StatusCalls ==
  { [op |-> "Status::from_raw", type |-> T, raw |-> raw] :
      T \in StatusTypes \ {"StatusWord"}, raw \in 0 .. U8Max }
  \cup { [op |-> "Status::from_raw", type |-> "StatusWord", raw |-> raw] :
           raw \in 0 .. U16Max }

\* Every raw byte of VOUT_MODE; every VoutMode value a caller can build.
VoutModeValues ==
  { VoutMode(relative, mode) : relative \in BOOLEAN,
      mode \in { ULinear16Mode(exponent) : exponent \in I8Min .. I8Max }
               \cup { VidMode(vid) : vid \in 0 .. U8Max }
               \cup { DirectMode, IeeeHalfMode } }
VoutModeDecodeCalls ==
  { [op |-> "VoutMode::from_raw", raw |-> raw] : raw \in 0 .. U8Max }
VoutModeEncodeCalls ==
  { [op |-> "VoutMode::to_raw", vm |-> vm] : vm \in VoutModeValues }

Linear11Calls == L11DecodeCalls(L11RawWords) \cup L11EncodeCalls
ULinear16Calls == U16DecodeCalls \cup U16EncodeCalls
DirectCalls == DirectDecodeCalls \cup DirectEncodeCalls
VoutModeCalls == VoutModeDecodeCalls \cup VoutModeEncodeCalls

InitWith(calls) == call \in calls /\ ret = Pending /\ bus = <<>>

Init ==
  \/ InitWith(Linear11Calls) \/ InitWith(ULinear16Calls)
  \/ InitWith(DirectCalls) \/ InitWith(CoefficientsCalls)
  \/ InitWith(VoutModeCalls) \/ InitWith(StatusCalls)
  \/ InitWith(RoundCalls)

Called(op) == call.op = op /\ ret = Pending
Returned(op) == call.op = op /\ ret # Pending

DecodeLinear11 ==
  /\ Called("Linear11::to_f32")
  /\ ret' = RetF32(Linear11_to_f32(call.raw))
  /\ UNCHANGED <<call, bus>>

EncodeLinear11 ==
  /\ Called("Linear11::from_f32")
  /\ ret' = Linear11_from_f32(call.value)
  /\ UNCHANGED <<call, bus>>

DecodeULinear16 ==
  /\ Called("ULinear16::to_f32")
  /\ ret' = RetF32(ULinear16_to_f32(call.raw, call.exponent))
  /\ UNCHANGED <<call, bus>>

EncodeULinear16 ==
  /\ Called("ULinear16::from_f32")
  /\ ret' = ULinear16_from_f32(call.value, call.exponent)
  /\ UNCHANGED <<call, bus>>

DecodeDirect ==
  /\ Called("DirectCoefficients::to_f32")
  /\ ret' \in Direct_to_f32(call.c, call.raw)
  /\ UNCHANGED <<call, bus>>

EncodeDirect ==
  /\ Called("DirectCoefficients::from_f32")
  /\ ret' = Direct_from_f32(call.c, call.value)
  /\ UNCHANGED <<call, bus>>

ParseCoefficients ==
  /\ Called("DirectCoefficients::from_coefficients_response")
  /\ ret' = from_coefficients_response(call.data)
  /\ UNCHANGED <<call, bus>>

DecodeVoutMode ==
  /\ Called("VoutMode::from_raw")
  /\ ret' = RetVoutMode(VoutMode_from_raw(call.raw))
  /\ UNCHANGED <<call, bus>>

EncodeVoutMode ==
  /\ Called("VoutMode::to_raw")
  /\ ret' = RetU8(VoutMode_to_raw(call.vm))
  /\ UNCHANGED <<call, bus>>

DecodeStatus ==
  /\ Called("Status::from_raw")
  /\ ret' = Status_from_raw(call.type, call.raw)
  /\ UNCHANGED <<call, bus>>

Round ==
  /\ Called("round_f32")
  /\ ret' = RetF32(round_f32(call.x))
  /\ UNCHANGED <<call, bus>>

NextLinear11 == DecodeLinear11 \/ EncodeLinear11
NextULinear16 == DecodeULinear16 \/ EncodeULinear16
NextDirect == DecodeDirect \/ EncodeDirect
NextVoutMode == DecodeVoutMode \/ EncodeVoutMode
Next ==
  \/ NextLinear11 \/ NextULinear16 \/ NextDirect \/ ParseCoefficients
  \/ NextVoutMode \/ DecodeStatus \/ Round

Spec == Init /\ [][Next]_vars
SpecLinear11 == InitWith(Linear11Calls) /\ [][NextLinear11]_vars
\* Linear11::to_f32 on every 16-bit word.
SpecLinear11All ==
  InitWith(L11DecodeCalls(0 .. U16Max)) /\ [][DecodeLinear11]_vars
SpecULinear16 == InitWith(ULinear16Calls) /\ [][NextULinear16]_vars
SpecULinear16Wide == InitWith(U16WideCalls) /\ [][NextULinear16]_vars
\* Both linear formats.
SpecLinearFormats ==
  InitWith(Linear11Calls \cup ULinear16Calls)
    /\ [][NextLinear11 \/ NextULinear16]_vars
SpecDirect == InitWith(DirectCalls) /\ [][NextDirect]_vars
SpecCoefficients ==
  InitWith(CoefficientsCalls) /\ [][ParseCoefficients]_vars
SpecVoutMode == InitWith(VoutModeCalls) /\ [][NextVoutMode]_vars
SpecStatus == InitWith(StatusCalls) /\ [][DecodeStatus]_vars
SpecRound == InitWith(RoundCalls) /\ [][Round]_vars

---------------------------------------------------------------------------
(* Several callers.  The functions take their arguments by value (self is   *)
(* a Copy value) and the three files declare no static, no cell and no      *)
(* unsafe block, so a call running beside others has its own arguments and  *)
(* its own return slot: here call and ret hold one entry per caller, and a  *)
(* step is one caller's call returning, in any order.                       *)

NumCallers == 2
Callers == 1 .. NumCallers

\* What a call returns, by the function called.
Outcomes(c) ==
  CASE c.op = "Linear11::to_f32" -> { RetF32(Linear11_to_f32(c.raw)) }
    [] c.op = "Linear11::from_f32" -> { Linear11_from_f32(c.value) }
    [] c.op = "ULinear16::to_f32" ->
         { RetF32(ULinear16_to_f32(c.raw, c.exponent)) }
    [] c.op = "ULinear16::from_f32" ->
         { ULinear16_from_f32(c.value, c.exponent) }
    [] c.op = "DirectCoefficients::to_f32" -> Direct_to_f32(c.c, c.raw)
    [] c.op = "DirectCoefficients::from_f32" ->
         { Direct_from_f32(c.c, c.value) }
    [] c.op = "DirectCoefficients::from_coefficients_response" ->
         { from_coefficients_response(c.data) }
    [] c.op = "VoutMode::from_raw" -> { RetVoutMode(VoutMode_from_raw(c.raw)) }
    [] c.op = "VoutMode::to_raw" -> { RetU8(VoutMode_to_raw(c.vm)) }
    [] c.op = "Status::from_raw" -> { Status_from_raw(c.type, c.raw) }

\* One call of each function, and a second one of some.
ConcurrentCalls ==
  L11DecodeCalls({61648, 2047})
  \cup { [op |-> "Linear11::from_f32", value |-> Fin(13, 2)],
         [op |-> "ULinear16::to_f32", raw |-> 8192, exponent |-> -13],
         [op |-> "ULinear16::from_f32", value |-> Fin(5033165, -22),
          exponent |-> -13],
         [op |-> "DirectCoefficients::to_f32", c |-> Coeffs(10, 5, 0),
          raw |-> 35],
         [op |-> "DirectCoefficients::to_f32", c |-> Coeffs(1, 0, I8Min),
          raw |-> 5],
         [op |-> "DirectCoefficients::from_f32", c |-> Coeffs(10, 5, 0),
          value |-> Fin(3, 0)],
         [op |-> "DirectCoefficients::from_coefficients_response",
          data |-> <<10, 0, 5, 0, 0>>],
         [op |-> "VoutMode::from_raw", raw |-> 147],
         [op |-> "VoutMode::to_raw", vm |-> VoutMode(TRUE, VidMode(31))],
         [op |-> "Status::from_raw", type |-> "StatusCml", raw |-> U8Max] }

InitConcurrent ==
  /\ call \in [Callers -> ConcurrentCalls]
  /\ ret = [k \in Callers |-> Pending]
  /\ bus = <<>>

\* The value returned into every caller's slot, as through a shared buffer.
StoreReturn_Shared(slots, k, r) == [j \in DOMAIN slots |-> r]
\* The value returned to caller k: the function's return value is moved to
\* its caller, nothing else is written.
StoreReturn(slots, k, r) == [slots EXCEPT ![k] = r]

\* The call of caller k returns.
ReturnTo(k) ==
  /\ ret[k] = Pending
  /\ \E r \in Outcomes(call[k]) : ret' = StoreReturn(ret, k, r)
  /\ UNCHANGED <<call, bus>>

NextConcurrent == \E k \in Callers : ReturnTo(k)

SpecConcurrent == InitConcurrent /\ [][NextConcurrent]_vars

---------------------------------------------------------------------------
(* The caller of PmbusAdaptor and the bus behind it.  A method call runs to *)
(* its return in one step: it makes its call of the bus adaptor, whose      *)
(* result the device and the wire decide, appends it to bus, and returns.   *)
(* The caller then makes further calls on the same adaptor.                 *)

\* Number of method calls one caller makes on the adaptor.
MaxCalls == 2

Addrs == { 16, 17 }
BusErrors == { "NoAcknowledge", "ArbitrationLoss" }
Failures == { Err(e) : e \in BusErrors }

ByteReplies == { 0, 1, 64, 127, 128, U8Max }
WordReplies == { 0, 64, 32832, U16Max }
BlockReplies == { <<>>, <<3, 7>> }
CoefficientsReplies ==
  { [i \in 1 .. len |-> U8Max] : len \in 0 .. 7 }
  \cup { <<5, 10, 0, 5, 0, 0>>, <<5, 1, 2, 3, 4, 253>>,
         <<6, 10, 128, U8Max, 0, 128, 9>> }

\* What a method of the bus adaptor can give back.
SmbusReplies(op) ==
  Failures \cup
  CASE op \in {"send_byte", "write_byte", "write_word", "block_write"} ->
         { Ok(Unit) }
    [] op = "read_byte" -> { Ok(b) : b \in ByteReplies }
    [] op \in {"read_word", "process_call"} -> { Ok(w) : w \in WordReplies }
    [] op = "block_read" -> { Ok(d) : d \in BlockReplies }
    [] op = "block_read_process_call" ->
         { Ok(d) : d \in CoefficientsReplies }
    [] op = "write_read" ->
         { Ok(<<1, 2, 3, 4>>), Ok(<<U8Max, U8Max, U8Max, U8Max>>) }

\* The payload a caller passes to a pass-through method.
Payloads(op) ==
  CASE op = "write_byte" -> { <<0>>, <<U8Max>> }
    [] op = "write_word" -> { <<0>>, <<U16Max>> }
    [] op = "block_write" -> { <<1, 2>> }
    [] op = "block_read_process_call" -> { <<0, 120>> }
    [] op = "process_call" -> { <<120>> }
    [] OTHER -> { Unit }

GetCoefficientsCalls ==
  { [op |-> "PmbusAdaptor::get_coefficients", addr |-> addr,
     query |-> query] : addr \in Addrs, query \in {0, 33} }
GetStatusCalls ==
  { [op |-> "PmbusAdaptor::get_status", type |-> T, addr |-> addr] :
      T \in StatusTypes, addr \in Addrs }
SetStatusCalls ==
  { [op |-> "PmbusAdaptor::set_status", type |-> T, addr |-> addr,
     status |-> Status_from_raw(T, raw)] :
      T \in StatusTypes, addr \in Addrs, raw \in {0, 64, U8Max} }
UserDataCalls ==
  { [op |-> "PmbusAdaptor::set_user_data", addr |-> addr, index |-> index,
     data |-> <<1, 2>>] : addr \in Addrs, index \in 0 .. U8Max }
  \cup { [op |-> "PmbusAdaptor::get_user_data", addr |-> addr,
          index |-> index] : addr \in Addrs, index \in 0 .. U8Max }
CommandCalls ==
  UNION { { [op |-> "PmbusAdaptor::command", method |-> m, addr |-> addr,
             data |-> data] : addr \in Addrs, data \in Payloads(m.smbus) } :
          m \in PassThrough }

AdaptorOps ==
  { "PmbusAdaptor::get_coefficients", "PmbusAdaptor::get_status",
    "PmbusAdaptor::set_status", "PmbusAdaptor::set_user_data",
    "PmbusAdaptor::get_user_data", "PmbusAdaptor::command" }

InitAdaptor ==
  \/ InitWith(GetCoefficientsCalls) \/ InitWith(GetStatusCalls)
  \/ InitWith(SetStatusCalls) \/ InitWith(UserDataCalls)
  \/ InitWith(CommandCalls)

\* The one place a method reaches the bus: the call is logged with the
\* result the bus adaptor gave.
SmbusCall_Retrying(log, op, addr, c, data, resp) ==
  IF resp.kind = "Err"
    THEN log \o << Transaction(op, addr, c, data, resp),
                   Transaction(op, addr, c, data, resp) >>
    ELSE Append(log, Transaction(op, addr, c, data, resp))
SmbusCall(log, op, addr, c, data, resp) ==
  Append(log, Transaction(op, addr, c, data, resp))

GetCoefficients ==
  /\ Called("PmbusAdaptor::get_coefficients")
  /\ \E resp \in SmbusReplies("block_read_process_call") :
       /\ bus' = SmbusCall(bus, "block_read_process_call", call.addr,
                           code("Coefficients"), <<call.query>>, resp)
       /\ ret' = get_coefficients(resp)
  /\ UNCHANGED call

GetStatus ==
  /\ Called("PmbusAdaptor::get_status")
  /\ \E resp \in SmbusReplies(StatusRead(call.type)) :
       /\ bus' = SmbusCall(bus, StatusRead(call.type), call.addr,
                           code(call.type), Unit, resp)
       /\ ret' = get_status(call.type, resp)
  /\ UNCHANGED call

SetStatus ==
  /\ Called("PmbusAdaptor::set_status")
  /\ \E resp \in SmbusReplies(StatusWrite(call.type)) :
       /\ bus' = SmbusCall(bus, StatusWrite(call.type), call.addr,
                           code(call.type), <<bits(call.status)>>, resp)
       /\ ret' = resp
  /\ UNCHANGED call

SetUserData ==
  /\ Called("PmbusAdaptor::set_user_data")
  /\ \E resp \in SmbusReplies("block_write") :
       /\ bus' = SmbusCall(bus, "block_write", call.addr,
                           UserDataCode(call.index), call.data, resp)
       /\ ret' = resp
  /\ UNCHANGED call

GetUserData ==
  /\ Called("PmbusAdaptor::get_user_data")
  /\ \E resp \in SmbusReplies("block_read") :
       /\ bus' = SmbusCall(bus, "block_read", call.addr,
                           UserDataCode(call.index), Unit, resp)
       /\ ret' = resp
  /\ UNCHANGED call

Command ==
  /\ Called("PmbusAdaptor::command")
  /\ \E resp \in SmbusReplies(call.method.smbus) :
       /\ bus' = SmbusCall(bus, call.method.smbus, call.addr,
                           code(call.method.cmd), call.data, resp)
       /\ ret' = MethodResult(call.method.name, resp)
  /\ UNCHANGED call

\* The calls a caller makes after call c returned r: the same call again
\* (a retry is the caller's own), the same at another device, the status
\* it read written back, the status it wrote read again.
FollowUps(c, r) ==
  { [c EXCEPT !.addr = addr] : addr \in Addrs }
  \cup (IF c.op = "PmbusAdaptor::get_status" /\ r.kind = "Ok"
          THEN { [op |-> "PmbusAdaptor::set_status", type |-> c.type,
                  addr |-> c.addr, status |-> r.val] }
          ELSE {})
  \cup (IF c.op = "PmbusAdaptor::set_status"
          THEN { [op |-> "PmbusAdaptor::get_status", type |-> c.type,
                  addr |-> c.addr] }
          ELSE {})

Invoke ==
  /\ call.op \in AdaptorOps
  /\ ret # Pending
  /\ Len(bus) < MaxCalls
  /\ call' \in FollowUps(call, ret)
  /\ ret' = Pending
  /\ UNCHANGED bus

NextAdaptor ==
  \/ GetCoefficients \/ GetStatus \/ SetStatus
  \/ SetUserData \/ GetUserData \/ Command \/ Invoke

SpecAdaptor == InitAdaptor /\ [][NextAdaptor]_vars

---------------------------------------------------------------------------
(* The properties' own arithmetic: exact, over the integers.  A finite f32  *)
(* is the dyadic rational m * 2^e; dividing it by 2^n gives m * 2^(e - n).  *)

\* The width-bit field of word w that starts at bit lo, as two's complement.
TwosComplementField(w, lo, width) ==
  LET field == (w \div (2 ^ lo)) % (2 ^ width)
  IN  IF field >= 2 ^ (width - 1) THEN field - 2 ^ width ELSE field

\* num / den (den > 0) rounded to the nearest integer, halves away from zero.
RoundRatio(num, den) == Sgn(num) * ((2 * Abs(num) + den) \div (2 * den))

\* m * 2^e rounded to the nearest integer, halves away from zero; a result
\* beyond 2^30 in magnitude is reported as +-2^30, outside every raw range.
RoundHalfAway(m, e) ==
  IF m = 0 THEN 0
  ELSE IF e >= 0
    THEN IF BitLen(Abs(m)) + e > 30 THEN Sgn(m) * (2 ^ 30) ELSE m * (2 ^ e)
  ELSE IF -e >= 30 THEN 0
  ELSE RoundRatio(m, 2 ^ (-e))

\* value / 2^n, for a finite value, rounded half away from zero.
RoundedMantissa(value, n) == RoundHalfAway(value.m, value.e - n)

InMantissaRange(y) == y \in -1024 .. 1023

L11Exponents == -16 .. 15

\* |value - y * 2^n| for y = RoundedMantissa(value, n) in the mantissa range:
\* the difference is a multiple of the smaller of the two units and at most
\* |value| or half of 2^n, so it is an f32 and the subtraction is exact.
ExactError(value, n) ==
  FAbs(FSub(value, Canon(RoundedMantissa(value, n), n)))

FiniteNonZero(x) == IsFinite(x) /\ ~IsZero(x)

---------------------------------------------------------------------------
(* C1 *)

\* C1: for every 16-bit raw word w, Linear11::to_f32 returns Y * 2^N, where N
\* is bits 15:11 and Y is bits 10:0 of w, both read as two's complement;
\* 0xF0D0 and 0xE340 decode to 52.0, 0xC840 to 0.5 and 0 to 0.0.
C1_Linear11DecodeIsYTimes2PowN ==
  Returned("Linear11::to_f32") =>
    LET N == TwosComplementField(call.raw, 11, 5)
        Y == TwosComplementField(call.raw, 0, 11)
    IN  /\ ret = RetF32(Canon(Y, N))
        /\ call.raw \in {61648, 58176} => ret = RetF32(Fin(13, 2))
        /\ call.raw = 51264 => ret = RetF32(Fin(1, -1))
        /\ call.raw = 0 => ret = RetF32(Zero)

\* A word with a negative exponent and one with a negative mantissa decoded.
C1_Witness ==
  \/ /\ Returned("Linear11::to_f32") /\ call.raw = 61648
     /\ ret = RetF32(Fin(13, 2))
  \/ /\ Returned("Linear11::to_f32") /\ call.raw = 2047
     /\ ret = RetF32(Fin(-1, 0))

---------------------------------------------------------------------------
(* C2 *)

\* C2: when Linear11::from_f32 succeeds on a finite nonzero value, the word
\* holds (N, Y) with Y = value / 2^N rounded half away from zero, Y in
\* -1024..1023, |value - Y * 2^N| minimal over the exponents whose rounded
\* mantissa is in range, and N the smallest exponent reaching that minimum;
\* 52.0 encodes to 0xE340.
C2_Linear11EncodeIsNearestSmallestExponent ==
  Returned("Linear11::from_f32") /\ FiniteNonZero(call.value)
    /\ ret.kind = "Some" =>
    LET value == call.value
        N == TwosComplementField(ret.val, 11, 5)
        Y == TwosComplementField(ret.val, 0, 11)
        valid == { n \in L11Exponents :
                     InMantissaRange(RoundedMantissa(value, n)) }
    IN  /\ Y = RoundedMantissa(value, N)
        /\ N \in valid
        /\ \A n \in valid :
             /\ ~FLt(ExactError(value, n), ExactError(value, N))
             /\ n < N => FLt(ExactError(value, N), ExactError(value, n))
        /\ value = Fin(13, 2) => ret.val = 58176

---------------------------------------------------------------------------
(* C3 *)

\* C3: Linear11::from_f32, ULinear16::from_f32 (for every exponent) and
\* DirectCoefficients::from_f32 (for every m, b, R) return None when the
\* value is NaN or +Infinity.
C3_EncodersRejectNaNAndInfinity ==
  /\ ret # Pending
  /\ call.op \in { "Linear11::from_f32", "ULinear16::from_f32",
                   "DirectCoefficients::from_f32" }
  /\ call.value \in { NaN, PosInf }
  => ret = None

---------------------------------------------------------------------------
(* C4 *)

\* 1023.5 * 2^15 and -1024.5 * 2^15
L11UpperLimit == Fin(2047, 14)
L11LowerLimit == Fin(-2049, 14)

\* C4: on a finite nonzero value Linear11::from_f32 returns None exactly when
\* no exponent in -16..15 gives a rounded mantissa in -1024..1023, which is
\* exactly when value >= 1023.5 * 2^15 or value <= -1024.5 * 2^15; otherwise
\* it returns a word, so a value past the range never gets the end code.
C4_Linear11FailsExactlyOutOfRange ==
  Returned("Linear11::from_f32") /\ FiniteNonZero(call.value) =>
    LET value == call.value
        outside == FGe(value, L11UpperLimit) \/ FGe(L11LowerLimit, value)
        noExponent == \A n \in L11Exponents :
                         ~InMantissaRange(RoundedMantissa(value, n))
    IN  /\ (ret = None) <=> outside
        /\ outside <=> noExponent
        /\ ret # None => ret.kind = "Some" /\ ret.val \in 0 .. 65535

\* The two limits are refused, their neighbours inside the range are encoded
\* with the end mantissas 1023 and -1024 at exponent 15.
C4_Witness ==
  /\ Returned("Linear11::from_f32")
  /\ \/ call.value = L11UpperLimit /\ ret = None
     \/ call.value = L11LowerLimit /\ ret = None
     \/ call.value = Fin(16769023, 1) /\ ret = Some(31743)
     \/ call.value = Fin(-8392703, 2) /\ ret = Some(31744)

---------------------------------------------------------------------------
(* C5 *)

\* The f32 nearest to 0.300, 0.200, 0.294 and 0.700.
F0_300 == Fin(5033165, -24)
F0_200 == Fin(13421773, -26)
F0_294 == Fin(9865003, -25)
F0_700 == Fin(11744051, -24)

\* C5: ULinear16::from_f32(v, e), e in -16..15, returns None when v is NaN,
\* infinite or negative; otherwise, with r = v / 2^e rounded half away from
\* zero, None when r > 65535 and the word r when r <= 65535.  With e = -12,
\* 0.300 gives 1229, 0.200 gives 819, 0.294 gives 1204, 0.700 gives 2867.
C5_ULinear16EncodeRoundsOrFails ==
  Returned("ULinear16::from_f32") /\ call.exponent \in -16 .. 15 =>
    LET v == call.value
        e == call.exponent
    IN  /\ IF ~IsFinite(v) \/ FLt(v, Zero) THEN ret = None
           ELSE LET r == RoundHalfAway(v.m, v.e - e)
                IN  IF r > 65535 THEN ret = None ELSE ret = Some(r)
        /\ e = -12 /\ v = F0_300 => ret = Some(1229)
        /\ e = -12 /\ v = F0_200 => ret = Some(819)
        /\ e = -12 /\ v = F0_294 => ret = Some(1204)
        /\ e = -12 /\ v = F0_700 => ret = Some(2867)

---------------------------------------------------------------------------
(* C6 *)

\* C6: for every raw word V in 0..65535 and exponent e in -16..15,
\* ULinear16::to_f32 returns V * 2^e exactly (V has 16 bits, so the product
\* is an f32), and never a negative value: V is read as unsigned.
C6_ULinear16DecodeIsUnsignedVTimes2PowE ==
  Returned("ULinear16::to_f32") /\ call.exponent \in -16 .. 15 =>
    /\ ret = RetF32(Canon(call.raw, call.exponent))
    /\ ~FLt(ret.val, Zero)

\* A word with bit 15 set decoded to a positive value.
C6_Witness ==
  /\ Returned("ULinear16::to_f32")
  /\ call.raw = 65535 /\ call.exponent = -16
  /\ ret = RetF32(Fin(65535, -16))

---------------------------------------------------------------------------
(* C7 *)

\* (m * x + b) * 2^k for the finite x = x.m * 2^x.e, with k = max(-x.e, 0):
\* an integer.
DirectNumerator(c, x) ==
  c.m * x.m * (2 ^ Max(x.e, 0)) + c.b * (2 ^ Max(-x.e, 0))

\* The cases whose exact arithmetic stays within 31-bit integers.
DirectComputable(c, x) ==
  /\ IsFinite(x)
  /\ Max(x.e, 0) <= 26 /\ Max(-x.e, 0) <= 26
  /\ BitLen(Abs(c.m)) + BitLen(Abs(x.m)) + Max(x.e, 0) <= 27
  /\ BitLen(Abs(c.b)) + Max(-x.e, 0) <= 27
  /\ c.r >= 0 =>
       BitLen(Abs(DirectNumerator(c, x))) + BitLen(10 ^ c.r) <= 29
  /\ c.r < 0 => BitLen(10 ^ (-c.r)) + Max(-x.e, 0) <= 28

\* (m * x + b) * 10^R rounded half away from zero.
DirectRounded(c, x) ==
  LET k == Max(-x.e, 0)
  IN  IF c.r >= 0
        THEN RoundRatio(DirectNumerator(c, x) * (10 ^ c.r), 2 ^ k)
        ELSE RoundRatio(DirectNumerator(c, x), (2 ^ k) * (10 ^ (-c.r)))

\* C7: for R in -8..8 and a finite x, DirectCoefficients::from_f32 returns
\* y = (m * x + b) * 10^R rounded half away from zero when y is in
\* -32768..32767 and None otherwise (stated for the x, m, b whose exact
\* arithmetic is computable here).
C7_DirectEncodeRoundsOrFails ==
  /\ Returned("DirectCoefficients::from_f32")
  /\ call.c.r \in -8 .. 8
  /\ DirectComputable(call.c, call.value)
  => LET y == DirectRounded(call.c, call.value)
     IN  IF y \in -32768 .. 32767 THEN ret = Some(y) ELSE ret = None

---------------------------------------------------------------------------
(* C8 *)

\* The f32 nearest to 10^k, for k in -8..8.
TenTo(k) ==
  IF k >= 0 THEN Canon(10 ^ k, 0) ELSE FDiv(One, Canon(10 ^ (-k), 0))

\* C8: for m # 0 and R in -8..8, DirectCoefficients::to_f32(Y) is
\* (1/m) * (Y * 10^(-R) - b) evaluated in f32: Y is scaled by ten to the
\* power minus R, then b is subtracted.  Where m = 1, R <= 0 and the integer
\* Y * 10^(-R) - b is below 2^24 the result is that integer; with m = 1,
\* b = 0, R = 0 it is Y.
C8_DirectDecodeScalesByTenToMinusR ==
  Returned("DirectCoefficients::to_f32") /\ call.c.m # 0
    /\ call.c.r \in -8 .. 8 =>
    LET m == call.c.m
        b == call.c.b
        R == call.c.r
        Y == call.raw
    IN  /\ ret = RetF32(FMul(FDiv(One, Canon(m, 0)),
                             FSub(FMul(Canon(Y, 0), TenTo(-R)), Canon(b, 0))))
        /\ m = 1 /\ R <= 0 /\ BitLen(Abs(Y)) + BitLen(10 ^ (-R)) <= 24 =>
             ret = RetF32(Canon(Y * (10 ^ (-R)) - b, 0))
        /\ m = 1 /\ b = 0 /\ R = 0 => ret = RetF32(Canon(Y, 0))

\* Decodes with R on both sides of zero: m = 1, b = 0, Y = 5 gives 500.0 for
\* R = -2 and 0.05 for R = 2.
C8_Witness ==
  /\ Returned("DirectCoefficients::to_f32")
  /\ call.c.m = 1 /\ call.c.b = 0 /\ call.raw = 5
  /\ \/ call.c.r = -2 /\ ret = RetF32(Fin(125, 2))
     \/ call.c.r = 2 /\ ret = RetF32(Fin(13421773, -28))

---------------------------------------------------------------------------
(* C9 *)

\* from_f32(to_f32(Y)) == Some(Y) for the call that has just decoded Y.
DirectRoundTrips ==
  /\ ret.kind = "f32"
  /\ Direct_from_f32(call.c, ret.val) = Some(call.raw)

\* m = 10, b = 5, R = 0: 3.0 encodes to 35 and 35 decodes to 3.0.
DirectOffsetExample ==
  call.c = Coeffs(10, 5, 0) =>
    /\ Returned("DirectCoefficients::from_f32") /\ call.value = Fin(3, 0)
         => ret = Some(35)
    /\ Returned("DirectCoefficients::to_f32") /\ call.raw = 35
         => ret = RetF32(Fin(3, 0))

\* C9 as stated: for every m # 0, R in -8..8 and i16 Y,
\* from_f32(to_f32(Y)) == Some(Y); m = 10, b = 5, R = 0 maps 3.0 to 35 and
\* 35 to 3.0.
C9_DirectRoundTripAllCoefficients ==
  /\ DirectOffsetExample
  /\ Returned("DirectCoefficients::to_f32") /\ call.c.m # 0
       /\ call.c.r \in -8 .. 8 => DirectRoundTrips

\* C9 amended: for every m # 0, R in -8..8 and i16 Y,
\* from_f32(to_f32(Y)) == Some(Y) provided R <= 1 or b = 0; m = 10, b = 5,
\* R = 0 maps 3.0 to 35 and 35 to 3.0.
C9_DirectRoundTripSmallScaleOrNoOffset ==
  /\ DirectOffsetExample
  /\ Returned("DirectCoefficients::to_f32") /\ call.c.m # 0
       /\ call.c.r \in -8 .. 8 /\ (call.c.r <= 1 \/ call.c.b = 0)
       => DirectRoundTrips

\* A decode whose result encodes back to the raw value, with an offset and a
\* scale other than 1.
C9_Witness ==
  /\ Returned("DirectCoefficients::to_f32")
  /\ call.c.m # 0 /\ call.c.b # 0 /\ call.c.r = 1 /\ call.raw = 9999
  /\ DirectRoundTrips

---------------------------------------------------------------------------
(* C10 *)

\* C10: for every R outside -8..8, R = -128 included, to_f32 and from_f32
\* complete without panic and return what a scale of 1.0 (R = 0) gives; and
\* pow10(r) is defined exactly for r in -8..8.
C10_OutOfRangeRFallsBackToScaleOne ==
  /\ \A r \in I8Min .. I8Max : (pow10(r) # None) <=> (r \in -8 .. 8)
  /\ Returned("DirectCoefficients::to_f32") /\ call.c.r \notin -8 .. 8 =>
       ret = RetF32(DirectDecode(call.c, call.raw, One))
  /\ Returned("DirectCoefficients::from_f32") /\ call.c.r \notin -8 .. 8 =>
       ret = Direct_from_f32(Coeffs(call.c.m, call.c.b, 0), call.value)

---------------------------------------------------------------------------
(* C11 *)

\* C11: for every byte b, VoutMode::from_raw(b) returns a VoutMode (it never
\* fails) whose relative flag is bit 7 of b and whose mode follows the
\* selector s = bits 6:5 and the parameter p = bits 4:0: s = 00 gives
\* ULinear16 with exponent p when p < 16 and p - 32 otherwise, s = 01 gives
\* Vid with code p, s = 10 gives Direct, s = 11 gives IeeeHalf; 0x13 gives
\* ULinear16 -13 not relative, 0x93 gives ULinear16 -13 relative.
C11_VoutModeFromRawDecodesEveryByte ==
  Returned("VoutMode::from_raw") =>
    LET b == call.raw
        s == (b \div 32) % 4
        p == b % 32
    IN  /\ ret.kind = "VoutMode"
        /\ ret.val.relative = (b \div 128 = 1)
        /\ s = 0 => ret.val.mode = ULinear16Mode(IF p < 16 THEN p ELSE p - 32)
        /\ s = 1 => ret.val.mode = VidMode(p)
        /\ s = 2 => ret.val.mode = DirectMode
        /\ s = 3 => ret.val.mode = IeeeHalfMode
        /\ b = 19 => ret.val = VoutMode(FALSE, ULinear16Mode(-13))
        /\ b = 147 => ret.val = VoutMode(TRUE, ULinear16Mode(-13))

\* 0x93 decoded: a negative exponent with the relative flag set.
C11_Witness ==
  /\ Returned("VoutMode::from_raw") /\ call.raw = 147
  /\ ret = RetVoutMode(VoutMode(TRUE, ULinear16Mode(-13)))

---------------------------------------------------------------------------
(* C12 *)

\* C12: for every byte b whose selector (bits 6:5) is 00 or 01,
\* VoutMode::from_raw(b).to_raw() is b.
C12_VoutModeRoundTripsLinearAndVid ==
  Returned("VoutMode::from_raw") /\ (call.raw \div 32) % 4 \in {0, 1} =>
    VoutMode_to_raw(ret.val) = call.raw

\* 0x93 (ULinear16 -13, relative) and 0x3F (Vid 31) decoded, and to_raw of
\* the decoded value is the byte again.
C12_Witness ==
  /\ Returned("VoutMode::from_raw") /\ call.raw \in {147, 63}
  /\ ret.val.mode \in {ULinear16Mode(-13), VidMode(31)}
  /\ VoutMode_to_raw(ret.val) = call.raw

---------------------------------------------------------------------------
(* C13 *)

\* C13: for every byte b whose selector (bits 6:5) is 10 or 11,
\* VoutMode::from_raw(b).to_raw() is b AND 0xE0, so b round-trips exactly
\* if and only if its low five bits are zero; 0x40 gives 0x40, 0x5F gives
\* 0x40.
C13_VoutModeDropsReservedBits ==
  Returned("VoutMode::from_raw") /\ (call.raw \div 32) % 4 \in {2, 3} =>
    LET b == call.raw
        again == VoutMode_to_raw(ret.val)
    IN  /\ again = b - (b % 32)
        /\ (again = b) <=> (b % 32 = 0)
        /\ b = 64 => again = 64
        /\ b = 95 => again = 64

\* 0x5F decoded to Direct, which to_raw writes as 0x40.
C13_Witness ==
  /\ Returned("VoutMode::from_raw") /\ call.raw = 95
  /\ ret.val.mode = DirectMode
  /\ VoutMode_to_raw(ret.val) = 64

---------------------------------------------------------------------------
(* C14 *)

\* C14: DirectCoefficients::from_coefficients_response(data) returns None if
\* and only if data has fewer than 5 bytes; otherwise it returns m =
\* data[0] + 256 * data[1] and b = data[2] + 256 * data[3], each read as a
\* signed 16-bit integer, and R = data[4] read as a signed 8-bit integer,
\* whatever follows the fifth byte; [0x0A, 0x00, 0x05, 0x00, 0x00] gives
\* m = 10, b = 5, R = 0.
C14_CoefficientsResponseIsLittleEndian ==
  Returned("DirectCoefficients::from_coefficients_response") =>
    LET data == call.data
    IN  /\ (ret = None) <=> (Len(data) < 5)
        /\ Len(data) >= 5 =>
             ret = Some(Coeffs(
                     TwosComplementField(data[1] + 256 * data[2], 0, 16),
                     TwosComplementField(data[3] + 256 * data[4], 0, 16),
                     TwosComplementField(data[5], 0, 8)))
        /\ data = <<10, 0, 5, 0, 0>> => ret = Some(Coeffs(10, 5, 0))

\* A seven-byte response parsed: m = 0x800A = -32758, b = 0x00FF = 255,
\* R = 0x80 = -128, the two trailing bytes ignored.
C14_Witness ==
  /\ Returned("DirectCoefficients::from_coefficients_response")
  /\ call.data = <<10, 128, 255, 0, 128, 255, 0>>
  /\ ret = Some(Coeffs(-32758, 255, -128))

---------------------------------------------------------------------------
(* C15 *)

\* The mask the property gives for each status type.
StatusMask(T) ==
  CASE T = "StatusWord" -> 65535
    [] T = "StatusTemperature" -> 240
    [] T = "StatusCml" -> 251
    [] T \in {"StatusFans12", "StatusFans34"} -> 252
    [] T \in {"StatusByte", "StatusVout", "StatusIout", "StatusInput",
              "StatusOther"} -> 255

\* The bits of raw that are set in mask, bit by bit.
MaskedBits(raw, mask) ==
  LET kept == { k \in 0 .. 15 :
                  (raw \div (2 ^ k)) % 2 = 1 /\ (mask \div (2 ^ k)) % 2 = 1 }
      RECURSIVE Sum(_)
      Sum(k) == IF k > 15 THEN 0
                ELSE (IF k \in kept THEN 2 ^ k ELSE 0) + Sum(k + 1)
  IN  Sum(0)

\* C15: for each status type T and every raw value r, T::from_raw(r) returns
\* a value of T (it never fails) whose bits() is r AND mask(T): 0xFF for
\* StatusByte, StatusVout, StatusIout, StatusInput and StatusOther, 0xFFFF
\* for StatusWord, 0xF0 for StatusTemperature, 0xFB for StatusCml, 0xFC for
\* StatusFans12 and StatusFans34.
C15_StatusFromRawKeepsDefinedBits ==
  Returned("Status::from_raw") =>
    /\ ret.kind = call.type
    /\ ret.val = MaskedBits(call.raw, StatusMask(call.type))

\* StatusCml::from_raw(0xFF) and StatusTemperature::from_raw(0x0F): bits
\* outside the mask were set and are dropped.
C15_Witness ==
  /\ Returned("Status::from_raw")
  /\ \/ call.type = "StatusCml" /\ call.raw = 255 /\ ret.val = 251
     \/ call.type = "StatusTemperature" /\ call.raw = 15 /\ ret.val = 0

---------------------------------------------------------------------------
(* C16 *)

\* C16: zero is exact in both linear formats: Linear11::from_f32(0.0) returns
\* the raw word 0, ULinear16::from_f32(0.0, e) returns the raw word 0 for
\* every exponent e, Linear11::to_f32 of the raw word 0 is exactly 0.0 and
\* ULinear16::to_f32(e) of the raw word 0 is exactly 0.0 for every e.
C16_ZeroIsExact ==
  /\ Returned("Linear11::from_f32") /\ call.value = Zero => ret = Some(0)
  /\ Returned("ULinear16::from_f32") /\ call.value = Zero => ret = Some(0)
  /\ Returned("Linear11::to_f32") /\ call.raw = 0 => ret = RetF32(Zero)
  /\ Returned("ULinear16::to_f32") /\ call.raw = 0 => ret = RetF32(Zero)

\* 0.0 encoded by Linear11::from_f32 as the all-zero word.
C16_Witness ==
  Returned("Linear11::from_f32") /\ call.value = Zero /\ ret = Some(0)

---------------------------------------------------------------------------
(* C17 *)

\* |v - y * 2^n| <= 2^(n-1), exactly: v lies between (2y - 1) * 2^(n-1) and
\* (2y + 1) * 2^(n-1).
WithinHalfStep(v, y, n) ==
  /\ FGe(v, Canon(2 * y - 1, n - 1))
  /\ FGe(Canon(2 * y + 1, n - 1), v)

\* C17: for every finite value v on which Linear11::from_f32 succeeds, the
\* decoded result d = from_f32(v).to_f32() satisfies |v - d| <= 2^(N-1),
\* N being the exponent stored in the returned word, and
\* |v - d| < 0.01 * |v| + 0.01.  The second bound is checked through the
\* first: v = d, or 100 * 2^(N-1) < 1 (N <= -6), or 100 * 2^(N-1) < |v|.
C17_Linear11RoundTripWithinHalfStep ==
  Returned("Linear11::from_f32") /\ IsFinite(call.value)
    /\ ret.kind = "Some" =>
    LET v == call.value
        N == TwosComplementField(ret.val, 11, 5)
        Y == TwosComplementField(ret.val, 0, 11)
        d == Linear11_to_f32(ret.val)
    IN  /\ d = Canon(Y, N)
        /\ WithinHalfStep(v, Y, N)
        /\ v = d \/ N <= -6 \/ FGt(FAbs(v), Canon(25, N + 1))

\* 0.3 (0x3E99999A) encoded: not representable, so the decoded value
\* differs from it, by less than half a step of the chosen exponent.
C17_Witness ==
  /\ Returned("Linear11::from_f32") /\ call.value = Fin(5033165, -24)
  /\ ret.kind = "Some"
  /\ Linear11_to_f32(ret.val) # call.value
  /\ WithinHalfStep(call.value, TwosComplementField(ret.val, 0, 11),
                    TwosComplementField(ret.val, 11, 5))

---------------------------------------------------------------------------
(* C18 *)

\* C18: for every 16-bit raw word w, with v = Linear11::to_f32 of w,
\* Linear11::from_f32(v) succeeds and its result decodes to exactly v (the
\* re-encoded word may differ from w, the decoded value may not).
C18_Linear11RepresentableRoundTripsExactly ==
  Returned("Linear11::to_f32") =>
    LET again == Linear11_from_f32(ret.val)
    IN  /\ again.kind = "Some"
        /\ Linear11_to_f32(again.val) = ret.val

\* 0xF0D0 (N = -2, Y = 208) decoded to 52.0, which encodes to another word,
\* 0xE340, that decodes to 52.0 too.
C18_Witness ==
  /\ Returned("Linear11::to_f32") /\ call.raw = 61648
  /\ Linear11_from_f32(ret.val) = Some(58176)
  /\ Linear11_to_f32(58176) = ret.val

---------------------------------------------------------------------------
(* C19 *)

\* C19: for every exponent e in -16..15 and every finite v >= 0 on which
\* ULinear16::from_f32(v, e) succeeds, the decoded result
\* d = from_f32(v, e).to_f32(e) satisfies |v - d| <= 2^(e-1), half a
\* quantization step.
C19_ULinear16RoundTripWithinHalfStep ==
  Returned("ULinear16::from_f32") /\ IsFinite(call.value)
    /\ FGe(call.value, Zero) /\ ret.kind = "Some" =>
    /\ ULinear16_to_f32(ret.val, call.exponent)
         = Canon(ret.val, call.exponent)
    /\ WithinHalfStep(call.value, ret.val, call.exponent)

---------------------------------------------------------------------------
(* C20 *)

\* C20: whenever Linear11::from_f32(v) succeeds for a finite nonzero v, the
\* returned word decodes to a nonzero value; a nonzero v with |v| < 2^-17 is
\* reported as a failure (None), not flushed to a word that decodes to 0.0.
C20_Linear11NeverFlushesToZero ==
  Returned("Linear11::from_f32") /\ FiniteNonZero(call.value) =>
    /\ ret.kind = "Some" => ~IsZero(Linear11_to_f32(ret.val))
    /\ FLt(FAbs(call.value), Fin(1, -17)) => ret = None

---------------------------------------------------------------------------
(* C21 *)

---------------------------------------------------------------------------
(* C22 *)

\* C22: for every 16-bit word w and every flag name shared by StatusByte and
\* StatusWord (BUSY, OFF, VOUT_OV_FAULT, IOUT_OC_FAULT, VIN_UV_FAULT,
\* TEMPERATURE, CML, NONE_OF_THE_ABOVE), StatusWord::from_raw(w) contains
\* the flag if and only if StatusByte::from_raw(w AND 0xFF) contains it, and
\* the low byte of StatusWord::from_raw(w).bits() is
\* StatusByte::from_raw(w AND 0xFF).bits().
C22_StatusWordLowByteIsStatusByte ==
  Returned("Status::from_raw") /\ call.type = "StatusWord" =>
    LET byte == Status_from_raw("StatusByte", call.raw % 256)
    IN  /\ \A name \in DOMAIN StatusByteFlag :
             contains(ret.val, StatusWordFlag[name])
               <=> contains(byte.val, StatusByteFlag[name])
        /\ ret.val % 256 = byte.val
        /\ \A name \in DOMAIN StatusByteFlag :
             contains(byte.val, StatusByteFlag[name])
               <=> (call.raw \div StatusByteFlag[name]) % 2 = 1

\* StatusWord::from_raw(0x8040), the word of the test status_word_high_byte:
\* OFF is set in the word and in the byte 0x40, BUSY in neither.
C22_Witness ==
  /\ Returned("Status::from_raw") /\ call.type = "StatusWord"
  /\ call.raw = 32832
  /\ contains(ret.val, StatusWordFlag["OFF"])
  /\ contains(ret.val, StatusWordFlag["VOUT"])
  /\ ~contains(ret.val, StatusWordFlag["BUSY"])
  /\ contains(Status_from_raw("StatusByte", 64).val, StatusByteFlag["OFF"])

---------------------------------------------------------------------------
(* C23 *)

\* The transaction a returning method call has just added to the log.
LastTransaction == bus'[Len(bus')]

\* The log grew by exactly one transaction in this step.
OneMoreTransaction ==
  /\ Len(bus') = Len(bus) + 1
  /\ SubSeq(bus', 1, Len(bus)) = bus

C23_Step ==
  Called("PmbusAdaptor::get_coefficients") /\ ret' # Pending =>
    LET t == LastTransaction
    IN  /\ OneMoreTransaction
        /\ t.op = "block_read_process_call"
        /\ t.addr = call.addr
        /\ t.code = 48
        /\ t.data = <<call.query>>
        /\ t.resp.kind = "Err" =>
             ret' = Err([error |-> "Bus", e |-> t.resp.val])
        /\ t.resp.kind = "Ok" /\ Len(t.resp.val) < 6 =>
             ret' = Err([error |-> "InvalidResponseLength"])
        /\ t.resp.kind = "Ok" /\ Len(t.resp.val) >= 6 =>
             LET d == t.resp.val
             IN  ret' = Ok(Coeffs(
                          TwosComplementField(d[2] + 256 * d[3], 0, 16),
                          TwosComplementField(d[4] + 256 * d[5], 0, 16),
                          TwosComplementField(d[6], 0, 8)))

\* C23: get_coefficients(addr, query) makes exactly one bus call, a block
\* process call to addr of command 0x30 with the payload [query]; a bus
\* failure e is returned as PmbusError::Bus(e), a response of fewer than six
\* bytes as InvalidResponseLength, and any longer response gives the
\* coefficients read from its bytes 1..5 (m and b little-endian signed
\* 16-bit, R signed 8-bit), the count byte 0 skipped.
C23_GetCoefficientsOneCallSkipsCount == [][C23_Step]_vars

\* A seven-byte response [6, 0x0A, 0x80, 0xFF, 0x00, 0x80, 9] parsed:
\* m = 0x800A = -32758, b = 255, R = -128.
C23_Witness ==
  /\ Returned("PmbusAdaptor::get_coefficients")
  /\ Len(bus) = 1
  /\ bus[1].resp = Ok(<<6, 10, 128, U8Max, 0, 128, 9>>)
  /\ ret = Ok(Coeffs(-32758, 255, -128))

---------------------------------------------------------------------------
(* C24 *)

\* x + 0.5 (x >= 0) or x - 0.5 (x < 0) truncated toward zero, for a finite
\* x = m * 2^e of magnitude below 2^31, computed exactly and given as the
\* f32 of that integer: an x with e >= 0 is an integer and is the result.
TruncatedHalfAway(x) ==
  IF x.m = 0 THEN Zero
  ELSE IF x.e >= 0 THEN x
  ELSE IF -x.e >= 30 THEN Zero
  ELSE Canon(RoundRatio(x.m, 2 ^ (-x.e)), 0)

\* C24: round_f32 rounds to the nearest integer, halves away from zero: for
\* every x of magnitude below 2^31 it returns x + 0.5 (x >= 0) or x - 0.5
\* (x < 0) truncated toward zero; round(0.5) = 1, round(-0.5) = -1,
\* round(2.5) = 3, round(-2.5) = -3, round(0.49) = 0, and
\* round(-x) = -round(x).
C24_RoundIsHalfAwayFromZero ==
  Returned("round_f32") /\ IsFinite(call.x)
    /\ FLt(FAbs(call.x), Fin(1, 31)) =>
    /\ ret = RetF32(TruncatedHalfAway(call.x))
    /\ call.x = Half => ret.val = One
    /\ call.x = FNeg(Half) => ret.val = FNeg(One)
    /\ call.x = Fin(5, -1) => ret.val = Fin(3, 0)
    /\ call.x = Fin(-5, -1) => ret.val = Fin(-3, 0)
    /\ call.x = Canon(16441672, -25) => ret.val = Zero
    /\ round_f32(FNeg(call.x)) = FNeg(ret.val)

---------------------------------------------------------------------------
(* C25 *)

\* C25: for every N in -16..15 and every Y in -1024..1023 (the fields of
\* the 65536 words), the word from_f32 packs from N and Y is
\* (N mod 32) * 2^11 + (Y mod 2048), with N mod 32 in its bits 15:11 and
\* Y mod 2048 in its bits 10:0, and to_f32 unpacks that word into the same
\* N and the same Y and returns Y * 2^N.
C25_Linear11PackUnpackInverse ==
  Returned("Linear11::to_f32") =>
    LET N == TwosComplementField(call.raw, 11, 5)
        Y == TwosComplementField(call.raw, 0, 11)
        word == L11Pack(N, Y)
    IN  /\ N \in -16 .. 15 /\ Y \in -1024 .. 1023
        /\ word = (N % 32) * 2048 + (Y % 2048)
        /\ word \div 2048 = N % 32
        /\ word % 2048 = Y % 2048
        /\ word = call.raw
        /\ SignExtend5(word) = N
        /\ SignExtend11(word) = Y
        /\ ret = RetF32(Canon(Y, N))

\* N = -16 and Y = -1024, both negative: the word 0x8400 unpacks to them
\* and decodes to -1024 * 2^-16 = -2^-6.
C25_Witness ==
  /\ Returned("Linear11::to_f32") /\ call.raw = 33792
  /\ L11Pack(-16, -1024) = 33792
  /\ SignExtend5(33792) = -16 /\ SignExtend11(33792) = -1024
  /\ ret = RetF32(Fin(-1, -6))

---------------------------------------------------------------------------
(* C26 *)

\* C26: for every exponent e in -128..127, also when |e| >= 31,
\* ULinear16::to_f32(raw, e) returns the f32 of raw * 2^e, and
\* ULinear16::from_f32(v, e) of a finite v >= 0 returns v / 2^e rounded to
\* the nearest integer, halves away from zero, when that fits 16 bits and
\* None when it does not: the power of two used is exactly 2^e.
C26_ULinear16UsesExactPowerOfTwo ==
  /\ Returned("ULinear16::to_f32") =>
       ret = RetF32(IF call.raw = 0 THEN Zero
                    ELSE RoundF32(1, call.raw, call.exponent, FALSE))
  /\ Returned("ULinear16::from_f32") /\ IsFinite(call.value)
       /\ FGe(call.value, Zero) =>
       LET r == RoundHalfAway(call.value.m, call.value.e - call.exponent)
       IN  ret = IF r > U16Max THEN None ELSE Some(r)

---------------------------------------------------------------------------
(* C27 *)

\* The command code of each typed status register (PMBus 0x78..0x7F, 0x81,
\* 0x82).
StatusCommand(T) ==
  CASE T = "StatusByte" -> 120 [] T = "StatusWord" -> 121
    [] T = "StatusVout" -> 122 [] T = "StatusIout" -> 123
    [] T = "StatusInput" -> 124 [] T = "StatusTemperature" -> 125
    [] T = "StatusCml" -> 126 [] T = "StatusOther" -> 127
    [] T = "StatusFans12" -> 129 [] T = "StatusFans34" -> 130

\* Transaction t writes typed status register T.
IsStatusWrite(t, T) ==
  /\ t.op = (IF T = "StatusWord" THEN "write_word" ELSE "write_byte")
  /\ t.code = StatusCommand(T)

\* Transaction t reads typed status register T.
IsStatusRead(t, T) ==
  /\ t.op = (IF T = "StatusWord" THEN "read_word" ELSE "read_byte")
  /\ t.code = StatusCommand(T)

\* C27: for each of the ten typed status registers X, when get_status_X(addr)
\* has read r and its result is passed to set_status_X(addr, ...), the
\* write goes to the same address and command code as the read and its
\* payload is r AND mask(X); and in every sequence of get and set calls no
\* write to a status register carries a bit outside the register's mask.
C27_StatusWriteBackIsMasked ==
  /\ Returned("PmbusAdaptor::set_status") /\ Len(bus) >= 2 =>
       LET rd == bus[Len(bus) - 1]
           wr == bus[Len(bus)]
       IN  IsStatusRead(rd, call.type) /\ rd.addr = call.addr
             /\ rd.resp.kind = "Ok" =>
             /\ IsStatusWrite(wr, call.type)
             /\ wr.addr = rd.addr
             /\ wr.code = rd.code
             /\ wr.data = <<MaskedBits(rd.resp.val, StatusMask(call.type))>>
  /\ \A i \in DOMAIN bus : \A T \in StatusTypes :
       IsStatusWrite(bus[i], T) =>
         bus[i].data[1] = MaskedBits(bus[i].data[1], StatusMask(T))

\* STATUS_CML read as 0xFF at address 0x10 and written back: the payload is
\* 0xFB, the reserved bit 2 dropped.
C27_Witness ==
  /\ Returned("PmbusAdaptor::set_status") /\ call.type = "StatusCml"
  /\ Len(bus) = 2
  /\ bus[1].op = "read_byte" /\ bus[1].addr = 16 /\ bus[1].code = 126
  /\ bus[1].resp = Ok(U8Max)
  /\ bus[2].op = "write_byte" /\ bus[2].addr = 16 /\ bus[2].code = 126
  /\ bus[2].data = <<251>>

---------------------------------------------------------------------------
(* C28 *)

\* The command of the PMBus specification behind each pass-through method.
MethodCommand(name) ==
  CASE name = "clear_faults" -> 3
    [] name \in {"set_page", "get_page"} -> 0
    [] name \in {"set_vout_command", "get_vout_command"} -> 33
    [] name \in {"set_mfr_id", "get_mfr_id"} -> 153
    [] name = "page_plus_read" -> 6
    [] name = "query" -> 26
    [] name = "read_kwh_in" -> 131

\* The command code of a call, from the call's arguments alone.
CallCommand(c) ==
  CASE c.op = "PmbusAdaptor::get_coefficients" -> 48
    [] c.op \in {"PmbusAdaptor::get_status", "PmbusAdaptor::set_status"} ->
         StatusCommand(c.type)
    [] c.op \in {"PmbusAdaptor::set_user_data",
                 "PmbusAdaptor::get_user_data"} -> 176 + (c.index % 16)
    [] c.op = "PmbusAdaptor::command" -> MethodCommand(c.method.name)

C28_Step ==
  /\ ret = Pending /\ ret' # Pending =>
       /\ OneMoreTransaction
       /\ LastTransaction.addr = call.addr
       /\ LastTransaction.code = CallCommand(call)
       /\ LastTransaction.resp.kind = "Err" =>
            ret' = IF call.op = "PmbusAdaptor::get_coefficients"
                     THEN Err([error |-> "Bus",
                               e |-> LastTransaction.resp.val])
                     ELSE LastTransaction.resp
       /\ LastTransaction.resp.kind = "Ok" /\ ret'.kind = "Err" =>
            call.op = "PmbusAdaptor::get_coefficients"
  /\ ret' = Pending => bus' = bus

\* C28: every call of a PmbusAdaptor command method adds exactly one
\* transaction to the bus, at the address and with the command code that
\* the call's own arguments give, whatever calls came before; when the bus
\* call fails the method returns that error (as PmbusError::Bus in
\* get_coefficients) and makes no further transaction, and between calls
\* nothing is sent.
C28_OneTransactionPerCall == [][C28_Step]_vars

\* get_page fails with NoAcknowledge at address 0x11 after a successful
\* get_page at address 0x10: two calls, two transactions, the error
\* returned as it is.
C28_Witness ==
  /\ Returned("PmbusAdaptor::command") /\ call.method.name = "get_page"
  /\ Len(bus) = 2
  /\ bus[1].addr = 16 /\ bus[1].resp = Ok(U8Max)
  /\ bus[2].addr = 17 /\ bus[2].code = 0
  /\ bus[2].resp = Err("NoAcknowledge")
  /\ ret = Err("NoAcknowledge")

---------------------------------------------------------------------------
(* C29 *)

\* The CommandCode variant of user-data slot i, 0 <= i <= 15.
UserDataVariants ==
  << "UserData00", "UserData01", "UserData02", "UserData03", "UserData04",
     "UserData05", "UserData06", "UserData07", "UserData08", "UserData09",
     "UserData10", "UserData11", "UserData12", "UserData13", "UserData14",
     "UserData15" >>

\* C29: for every index in 0..255, set_user_data and get_user_data send
\* their block write / block read to the command code
\* 0xB0 + (index AND 0x0F): a code within 0xB0..0xBF (so the addition does
\* not overflow a byte), equal to the code of CommandCode::UserData00 ..
\* UserData15 for index 0..15, and for an index above 15 the code of slot
\* index mod 16; no index is rejected.
C29_UserDataCodeIsMaskedSlot ==
  Returned("PmbusAdaptor::set_user_data")
    \/ Returned("PmbusAdaptor::get_user_data") =>
    LET t == bus[Len(bus)]
        slot == call.index % 16
    IN  /\ Len(bus) >= 1
        /\ t.op = (IF call.op = "PmbusAdaptor::set_user_data"
                     THEN "block_write" ELSE "block_read")
        /\ t.addr = call.addr
        /\ t.code = 176 + slot
        /\ t.code \in 176 .. 191
        /\ t.code <= U8Max
        /\ t.code = code(UserDataVariants[slot + 1])
        /\ ret = t.resp

\* set_user_data with index 0xFF writes slot 15, command 0xBF.
C29_Witness ==
  /\ Returned("PmbusAdaptor::set_user_data") /\ call.index = U8Max
  /\ Len(bus) = 1
  /\ bus[1].op = "block_write" /\ bus[1].code = 191
  /\ bus[1].data = <<1, 2>> /\ bus[1].resp = Ok(Unit)
  /\ ret = Ok(Unit)

---------------------------------------------------------------------------
(* C30 *)

\* The selector (bits 6:5) of each variant of VoutModeType.
Selector(type) ==
  CASE type = "ULinear16" -> 0 [] type = "Vid" -> 1
    [] type = "Direct" -> 2 [] type = "IeeeHalf" -> 3

\* C30: for every VoutMode value m, also with an exponent outside -16..15
\* or a VID code above 31, to_raw(m) has bit 7 equal to m.relative, bits
\* 6:5 equal to the selector of m's variant, and in bits 4:0 the low five
\* bits of the parameter (zero for Direct and IeeeHalf); from_raw(to_raw(m))
\* has the variant and the relative flag of m, and is m whenever the
\* exponent is in -16..15 or the code is in 0..31.
C30_VoutModeToRawKeepsSelector ==
  Returned("VoutMode::to_raw") =>
    LET m == call.vm
        raw == ret.val
        back == VoutMode_from_raw(raw)
    IN  /\ raw \in 0 .. U8Max
        /\ (raw \div 128 = 1) <=> m.relative
        /\ (raw \div 32) % 4 = Selector(m.mode.type)
        /\ m.mode.type = "ULinear16" => raw % 32 = m.mode.exponent % 32
        /\ m.mode.type = "Vid" => raw % 32 = m.mode.code % 32
        /\ m.mode.type \in {"Direct", "IeeeHalf"} => raw % 32 = 0
        /\ back.mode.type = m.mode.type
        /\ back.relative = m.relative
        /\ m.mode.type = "ULinear16" /\ m.mode.exponent \in -16 .. 15 =>
             back = m
        /\ m.mode.type = "Vid" /\ m.mode.code \in 0 .. 31 => back = m
        /\ m.mode.type \in {"Direct", "IeeeHalf"} => back = m

\* Vid with code 0xFF, relative: to_raw gives 0xBF (relative, selector 01,
\* parameter 31), which decodes to Vid 31, relative.
C30_Witness ==
  /\ Returned("VoutMode::to_raw")
  /\ call.vm = VoutMode(TRUE, VidMode(U8Max))
  /\ ret = RetU8(191)
  /\ VoutMode_from_raw(191) = VoutMode(TRUE, VidMode(31))

====
